---- MODULE Spec2Model ----
(***************************************************************************)
(* Traffic-simulation core of the city dashboard (frontend crate):         *)
(* traffic lights, intersections, cars, spawner and the City orchestrator. *)
(*                                                                         *)
(* Units.  Lengths are pixels (the code stores fractions of the screen and *)
(* multiplies by screen_width()/screen_height() in Car::x, Car::y,         *)
(* Intersection::x, Intersection::y; the model stores the product).  Time  *)
(* is counted in tenths of a second, so a duration of 3.0 s is 30 and the  *)
(* speed of 50 px/s is 5 px per unit.                                      *)
(***************************************************************************)
EXTENDS Integers, Sequences, FiniteSets, TLC

VARIABLES
    lights,        \* intersection id -> Intersection.lights (Vec<TrafficLight>)
    itl,           \* vertical_starts_green -> IntersectionTrafficLight
    cars,          \* City.cars (Vec<Car>)
    time,          \* macroquad get_time(), the clock read by the spawner
    last_spawn_time, \* CarSpawner.last_spawn_time
    spawned,       \* number of cars spawned so far
    frames,        \* number of update_cars calls so far
    log,           \* record of the most recent update_cars call
    shadow,        \* the lights of a twin city whose updates never see the override
    replay,        \* a second run of the city fed the same calls and random draws
    modes,         \* main's control modes and the last handle_input call
    channel,       \* the event channel between the SSE thread and the main loop
    window,        \* main's WindowState
    log_window     \* main's LogWindow

vars == <<lights, itl, cars, time, last_spawn_time, spawned, frames, log, shadow, replay,
          modes, channel, window, log_window>>

----------------------------------------------------------------------------
(* Constants of constants.rs                                               *)

GREEN_DURATION == 30
YELLOW_DURATION == 10
RED_DURATION == 30

CAR_SPEED == 5
LANE_OFFSET == 12
SAFE_FOLLOWING_DISTANCE == 50
STOP_DISTANCE_MIN == 30
STOP_DISTANCE_MAX == 80
LANE_TOLERANCE == 20
INTERSECTION_RADIUS == 40
CAR_SPAWN_INTERVAL == 15
ROAD_WIDTH == 60

\* road positions in percent of the screen
VERTICAL_ROAD_POSITIONS == <<15, 50, 85>>
HORIZONTAL_ROAD_POSITIONS == <<25, 75>>

\* macroquad's screen_width() and screen_height() (the default window)
ScreenW == 800
ScreenH == 600

Red == "Red"
Yellow == "Yellow"
Green == "Green"
LightStates == {Red, Yellow, Green}

Down == "Down"
Up == "Up"
Left == "Left"
Right == "Right"
Direction == {Down, Right, Up, Left}
None == "None"

Abs(n) == IF n < 0 THEN -n ELSE n

----------------------------------------------------------------------------
(* traffic_light.rs: LightState and TrafficLight                           *)

\* LightState::X(d) is the record [state |-> X, duration |-> d]
LightState(s, d) == [state |-> s, duration |-> d]

default_red == LightState(Red, RED_DURATION)
default_yellow == LightState(Yellow, YELLOW_DURATION)
default_green == LightState(Green, GREEN_DURATION)

\* LightState::to_u8
to_u8(ls) == CASE ls.state = Red -> 0 [] ls.state = Yellow -> 1 [] ls.state = Green -> 2

\* TrafficLight::new: time_in_state starts at the initial state's duration
TrafficLightNew(controls_vertical, initial_state) ==
    [controls_vertical |-> controls_vertical,
     state |-> initial_state,
     time_in_state |-> initial_state.duration]

\* a cycle that stays in Red once it is there
TLNextStateStayingRed(light) ==
    CASE light.state.state = Green -> LightState(Yellow, YELLOW_DURATION)
      [] light.state.state = Yellow -> LightState(Red, RED_DURATION)
      [] light.state.state = Red -> LightState(Red, RED_DURATION)

\* a cycle without the Yellow phase
TLNextStateSkippingYellow(light) ==
    CASE light.state.state = Green -> LightState(Red, RED_DURATION)
      [] light.state.state = Yellow -> LightState(Red, RED_DURATION)
      [] light.state.state = Red -> LightState(Green, GREEN_DURATION)

\* TrafficLight::get_next_state
TLNextState(light) ==
    CASE light.state.state = Green -> LightState(Yellow, YELLOW_DURATION)
      [] light.state.state = Yellow -> LightState(Red, RED_DURATION)
      [] light.state.state = Red -> LightState(Green, GREEN_DURATION)

\* TrafficLight::update
TLUpdate(light, dt) ==
    LET t == light.time_in_state - dt IN
    IF t <= 0
    THEN LET ns == TLNextState([light EXCEPT !.time_in_state = t]) IN
         [light EXCEPT !.state = ns, !.time_in_state = ns.duration]
    ELSE [light EXCEPT !.time_in_state = t]

\* TrafficLightBuilder::new: nothing chosen yet; an Option field is a
\* sequence, empty for None and <<v>> for Some(v)
TrafficLightBuilderNew == [controls_vertical |-> <<>>, initial_state |-> <<>>]

\* TrafficLightBuilder::initial_state
builder_initial_state(b, state) == [b EXCEPT !.initial_state = <<state>>]

\* TrafficLightBuilder::start_green_with
start_green_with(b, duration) == [b EXCEPT !.initial_state = <<LightState(Green, duration)>>]

\* TrafficLightBuilder::start_red_with
start_red_with(b, duration) == [b EXCEPT !.initial_state = <<LightState(Red, duration)>>]

\* TrafficLightBuilder::start_yellow_with
start_yellow_with(b, duration) == [b EXCEPT !.initial_state = <<LightState(Yellow, duration)>>]

\* TrafficLightBuilder::controls_vertical
builder_controls_vertical(b, vertical) == [b EXCEPT !.controls_vertical = <<vertical>>]

\* TrafficLightBuilder::build, with its defaults (vertical, Red(3.0))
build(b) ==
    TrafficLightNew(IF b.controls_vertical = <<>> THEN TRUE ELSE b.controls_vertical[1],
                    IF b.initial_state = <<>> THEN default_red ELSE b.initial_state[1])

\* TrafficLight::get_state_u8
get_state_u8(light) == to_u8(light.state)

----------------------------------------------------------------------------
(* traffic_light.rs: IntersectionTrafficLight                              *)

Vertical == "Vertical"
Horizontal == "Horizontal"

\* a controller starting with the vertical axis whatever the flag says
ItlNewVerticalFirst(vertical_starts_green) ==
    [vertical_state |-> default_green, horizontal_state |-> default_red,
     time_in_state |-> default_green.duration, active_direction |-> Vertical]

\* IntersectionTrafficLight::new
ItlNew(vertical_starts_green) ==
    IF vertical_starts_green
    THEN [vertical_state |-> default_green, horizontal_state |-> default_red,
          time_in_state |-> default_green.duration, active_direction |-> Vertical]
    ELSE [vertical_state |-> default_red, horizontal_state |-> default_green,
          time_in_state |-> default_green.duration, active_direction |-> Horizontal]

\* IntersectionTrafficLight::get_next_state
ItlNextState(current) ==
    CASE current.state = Green -> LightState(Yellow, YELLOW_DURATION)
      [] current.state = Yellow -> LightState(Red, RED_DURATION)
      [] current.state = Red -> LightState(Green, GREEN_DURATION)

\* IntersectionTrafficLight::update without the handover to the other axis:
\* the axis that was Red is left as it is when the active one turns Red
ItlUpdateNoHandover(c, dt) ==
    LET t == c.time_in_state - dt IN
    IF t <= 0
    THEN IF c.active_direction = Vertical
         THEN LET nv == ItlNextState(c.vertical_state) IN
              [vertical_state |-> nv,
               horizontal_state |-> c.horizontal_state,
               active_direction |-> IF nv.state = Red THEN Horizontal ELSE Vertical,
               time_in_state |-> nv.duration]
         ELSE LET nh == ItlNextState(c.horizontal_state) IN
              [horizontal_state |-> nh,
               vertical_state |-> c.vertical_state,
               active_direction |-> IF nh.state = Red THEN Vertical ELSE Horizontal,
               time_in_state |-> nh.duration]
    ELSE [c EXCEPT !.time_in_state = t]

\* IntersectionTrafficLight::update stepping the inactive axis through its
\* cycle as well
ItlUpdateAdvancingBoth(c, dt) ==
    LET t == c.time_in_state - dt IN
    IF t <= 0
    THEN IF c.active_direction = Vertical
         THEN LET nv == ItlNextState(c.vertical_state) IN
              [vertical_state |-> nv,
               horizontal_state |-> ItlNextState(c.horizontal_state),
               active_direction |-> IF nv.state = Red THEN Horizontal ELSE Vertical,
               time_in_state |-> nv.duration]
         ELSE LET nh == ItlNextState(c.horizontal_state) IN
              [horizontal_state |-> nh,
               vertical_state |-> ItlNextState(c.vertical_state),
               active_direction |-> IF nh.state = Red THEN Vertical ELSE Horizontal,
               time_in_state |-> nh.duration]
    ELSE [c EXCEPT !.time_in_state = t]

\* IntersectionTrafficLight::update restarting the timer with the duration of
\* the phase that has just ended
ItlUpdateKeepingDuration(c, dt) ==
    LET t == c.time_in_state - dt IN
    IF t <= 0
    THEN IF c.active_direction = Vertical
         THEN LET nv == ItlNextState(c.vertical_state) IN
              [vertical_state |-> nv,
               horizontal_state |-> IF nv.state = Red THEN default_green ELSE default_red,
               active_direction |-> IF nv.state = Red THEN Horizontal ELSE Vertical,
               time_in_state |-> c.vertical_state.duration]
         ELSE LET nh == ItlNextState(c.horizontal_state) IN
              [horizontal_state |-> nh,
               vertical_state |-> IF nh.state = Red THEN default_green ELSE default_red,
               active_direction |-> IF nh.state = Red THEN Vertical ELSE Horizontal,
               time_in_state |-> c.horizontal_state.duration]
    ELSE [c EXCEPT !.time_in_state = t]

\* IntersectionTrafficLight::update carrying the overshoot into the new phase
ItlUpdateCarryingOver(c, dt) ==
    LET t == c.time_in_state - dt IN
    IF t <= 0
    THEN IF c.active_direction = Vertical
         THEN LET nv == ItlNextState(c.vertical_state) IN
              [vertical_state |-> nv,
               horizontal_state |-> IF nv.state = Red THEN default_green ELSE default_red,
               active_direction |-> IF nv.state = Red THEN Horizontal ELSE Vertical,
               time_in_state |-> nv.duration + t]
         ELSE LET nh == ItlNextState(c.horizontal_state) IN
              [horizontal_state |-> nh,
               vertical_state |-> IF nh.state = Red THEN default_green ELSE default_red,
               active_direction |-> IF nh.state = Red THEN Vertical ELSE Horizontal,
               time_in_state |-> nh.duration + t]
    ELSE [c EXCEPT !.time_in_state = t]

\* IntersectionTrafficLight::update
ItlUpdate(c, dt) ==
    LET t == c.time_in_state - dt IN
    IF t <= 0
    THEN IF c.active_direction = Vertical
         THEN LET nv == ItlNextState(c.vertical_state) IN
              [vertical_state |-> nv,
               horizontal_state |-> IF nv.state = Red THEN default_green ELSE default_red,
               active_direction |-> IF nv.state = Red THEN Horizontal ELSE Vertical,
               time_in_state |-> nv.duration]
         ELSE LET nh == ItlNextState(c.horizontal_state) IN
              [horizontal_state |-> nh,
               vertical_state |-> IF nh.state = Red THEN default_green ELSE default_red,
               active_direction |-> IF nh.state = Red THEN Vertical ELSE Horizontal,
               time_in_state |-> nh.duration]
    ELSE [c EXCEPT !.time_in_state = t]

\* IntersectionTrafficLight::get_state_for_direction
ItlStateForDirection(c, direction) ==
    IF direction = Down \/ direction = Up
    THEN to_u8(c.vertical_state)
    ELSE to_u8(c.horizontal_state)

----------------------------------------------------------------------------
(* intersection.rs                                                         *)

NumIntersections == Len(VERTICAL_ROAD_POSITIONS) * Len(HORIZONTAL_ROAD_POSITIONS)
IntIds == 0 .. (NumIntersections - 1)

\* generate_intersections: ids run over the vertical roads (outer loop) and
\* the horizontal roads (inner loop)
IntXPercent(id) == VERTICAL_ROAD_POSITIONS[(id \div Len(HORIZONTAL_ROAD_POSITIONS)) + 1]
IntYPercent(id) == HORIZONTAL_ROAD_POSITIONS[(id % Len(HORIZONTAL_ROAD_POSITIONS)) + 1]

\* Intersection::x, Intersection::y
IntX(id) == (IntXPercent(id) * ScreenW) \div 100
IntY(id) == (IntYPercent(id) * ScreenH) \div 100

\* intersections all starting with the vertical light Green
GenerateIntersectionsUnstaggered ==
    [id \in IntIds |->
        << TrafficLightNew(TRUE, LightState(Green, 30)),
           TrafficLightNew(FALSE, LightState(Red, 30)) >>]

\* generate_intersections: the two lights pushed by add_light, vertical first
generate_intersections ==
    [id \in IntIds |->
        << TrafficLightNew(TRUE, IF id % 2 = 0 THEN LightState(Green, 30)
                                               ELSE LightState(Red, 30)),
           TrafficLightNew(FALSE, IF id % 2 = 0 THEN LightState(Red, 30)
                                                ELSE LightState(Green, 30)) >>]

\* Intersection::update_lights
update_lights(ls, dt) == [k \in 1 .. Len(ls) |-> TLUpdate(ls[k], dt)]

\* the search falling back to Green (2) when no light matches
FirstMatchingOrGreen(ls, k, is_vertical) ==
    LET matching == {j \in k .. Len(ls) : ls[j].controls_vertical = is_vertical} IN
    IF matching = {} THEN 2
    ELSE get_state_u8(ls[CHOOSE j \in matching : \A i \in matching : j <= i])

\* get_light_state_for_direction: the loop over self.lights from index k on
RECURSIVE FirstMatchingLight(_, _, _)
FirstMatchingLight(ls, k, is_vertical) ==
    IF k > Len(ls) THEN 0
    ELSE IF ls[k].controls_vertical = is_vertical THEN get_state_u8(ls[k])
    ELSE FirstMatchingLight(ls, k + 1, is_vertical)

\* Intersection::get_light_state_for_direction
get_light_state_for_direction(ls, direction) ==
    FirstMatchingLight(ls, 1, direction = Down \/ direction = Up)

----------------------------------------------------------------------------
(* models.rs: Car.  A car is the record                                    *)
(*   [x, y, direction, next_turn, just_turned, in_intersection];           *)
(* color, road_index and location are never read by the simulation.        *)

Car(x, y, direction, next_turn) ==
    [x |-> x, y |-> y, direction |-> direction, next_turn |-> next_turn,
     just_turned |-> FALSE, in_intersection |-> FALSE]

\* squared Euclidean distance of a point to the center of intersection id;
\* the code compares its square root with INTERSECTION_RADIUS
Dist2(x, y, id) == (x - IntX(id)) * (x - IntX(id)) + (y - IntY(id)) * (y - IntY(id))

WithinRadius(x, y, id) == Dist2(x, y, id) < INTERSECTION_RADIUS * INTERSECTION_RADIUS

----------------------------------------------------------------------------
(* car.rs: traffic control and collision detection                         *)

\* the distance test stopping on Red only
LightStopAtRedOnly(distance, light_state) ==
    /\ distance > STOP_DISTANCE_MIN
    /\ distance < STOP_DISTANCE_MAX
    /\ light_state = 0

\* the distance test without the lower end of the stop zone
LightStopAtNoMin(distance, light_state) ==
    /\ distance > 0
    /\ distance < STOP_DISTANCE_MAX
    /\ (light_state = 0 \/ light_state = 1)

\* the distance test shared by the four arms of check_traffic_light_at_intersection
LightStopAt(distance, light_state) ==
    /\ distance > STOP_DISTANCE_MIN
    /\ distance < STOP_DISTANCE_MAX
    /\ (light_state = 0 \/ light_state = 1)

\* check_traffic_light_at_intersection without its first early return
CheckLightIgnoringFlag(car, intersection_x, intersection_y, light_state) ==
    CASE car.direction = Down ->
           /\ Abs(car.x - intersection_x) < LANE_TOLERANCE
           /\ intersection_y > car.y
           /\ LightStopAt(intersection_y - car.y, light_state)
      [] car.direction = Up ->
           /\ Abs(car.x - intersection_x) < LANE_TOLERANCE
           /\ intersection_y < car.y
           /\ LightStopAt(car.y - intersection_y, light_state)
      [] car.direction = Right ->
           /\ Abs(car.y - intersection_y) < LANE_TOLERANCE
           /\ intersection_x > car.x
           /\ LightStopAt(intersection_x - car.x, light_state)
      [] car.direction = Left ->
           /\ Abs(car.y - intersection_y) < LANE_TOLERANCE
           /\ intersection_x < car.x
           /\ LightStopAt(car.x - intersection_x, light_state)

\* check_traffic_light_at_intersection
check_traffic_light_at_intersection(car, intersection_x, intersection_y, light_state) ==
    IF car.in_intersection THEN FALSE
    ELSE CASE car.direction = Down ->
                /\ Abs(car.x - intersection_x) < LANE_TOLERANCE
                /\ intersection_y > car.y
                /\ LightStopAt(intersection_y - car.y, light_state)
           [] car.direction = Up ->
                /\ Abs(car.x - intersection_x) < LANE_TOLERANCE
                /\ intersection_y < car.y
                /\ LightStopAt(car.y - intersection_y, light_state)
           [] car.direction = Right ->
                /\ Abs(car.y - intersection_y) < LANE_TOLERANCE
                /\ intersection_x > car.x
                /\ LightStopAt(intersection_x - car.x, light_state)
           [] car.direction = Left ->
                /\ Abs(car.y - intersection_y) < LANE_TOLERANCE
                /\ intersection_x < car.x
                /\ LightStopAt(car.x - intersection_x, light_state)

\* std::ptr::eq(car, other): car is an element of the live vector and other
\* an element of its clone, two different allocations, so the addresses
\* never agree
ptr_eq(car, other) == FALSE

\* the occupancy test reading the other car's in_intersection flag, which
\* is one tick old, instead of its distance to this intersection
OccupiedByFlag(car, other, intersection_x, intersection_y) ==
    /\ ~ptr_eq(car, other)
    /\ other.in_intersection

\* the test check_intersection_occupied applies to one car of the snapshot
OccupiedBy(car, other, intersection_x, intersection_y) ==
    /\ ~ptr_eq(car, other)
    /\ (other.x - intersection_x) * (other.x - intersection_x)
         + (other.y - intersection_y) * (other.y - intersection_y)
       < INTERSECTION_RADIUS * INTERSECTION_RADIUS

\* check_intersection_occupied
check_intersection_occupied(car, intersection_x, intersection_y, other_cars) ==
    \E j \in 1 .. Len(other_cars) :
        OccupiedBy(car, other_cars[j], intersection_x, intersection_y)

\* the same-direction arm accepting a car level with this one (distance 0)
\* as the car ahead
TooCloseBehindOrLevel(car, other) ==
    /\ car.direction = other.direction
    /\ CASE car.direction = Down ->
              Abs(car.x - other.x) < 10 /\ other.y - car.y >= 0
                /\ other.y - car.y < SAFE_FOLLOWING_DISTANCE
         [] car.direction = Up ->
              Abs(car.x - other.x) < 10 /\ car.y - other.y >= 0
                /\ car.y - other.y < SAFE_FOLLOWING_DISTANCE
         [] car.direction = Right ->
              Abs(car.y - other.y) < 10 /\ other.x - car.x >= 0
                /\ other.x - car.x < SAFE_FOLLOWING_DISTANCE
         [] car.direction = Left ->
              Abs(car.y - other.y) < 10 /\ car.x - other.x >= 0
                /\ car.x - other.x < SAFE_FOLLOWING_DISTANCE

\* check_car_collision, the same-direction arm: the distance to the car
\* ahead, f32::MAX (here: no distance) when the lanes differ
TooCloseBehind(car, other) ==
    /\ car.direction = other.direction
    /\ CASE car.direction = Down ->
              Abs(car.x - other.x) < 10 /\ other.y - car.y > 0
                /\ other.y - car.y < SAFE_FOLLOWING_DISTANCE
         [] car.direction = Up ->
              Abs(car.x - other.x) < 10 /\ car.y - other.y > 0
                /\ car.y - other.y < SAFE_FOLLOWING_DISTANCE
         [] car.direction = Right ->
              Abs(car.y - other.y) < 10 /\ other.x - car.x > 0
                /\ other.x - car.x < SAFE_FOLLOWING_DISTANCE
         [] car.direction = Left ->
              Abs(car.y - other.y) < 10 /\ car.x - other.x > 0
                /\ car.x - other.x < SAFE_FOLLOWING_DISTANCE

\* check_car_collision: is_opposite
is_opposite(car, other) ==
    CASE car.direction = Down -> other.direction = Up
      [] car.direction = Up -> other.direction = Down
      [] car.direction = Right -> other.direction = Left
      [] car.direction = Left -> other.direction = Right

\* check_car_collision, the opposite-direction arm: on_same_road && distance < safe_distance
OppositeClose(car, other) ==
    /\ is_opposite(car, other)
    /\ IF car.direction = Down \/ car.direction = Up
       THEN 2 * Abs(car.x - other.x) < ROAD_WIDTH
              /\ Abs(car.y - other.y) < SAFE_FOLLOWING_DISTANCE
       ELSE 2 * Abs(car.y - other.y) < ROAD_WIDTH
              /\ Abs(car.x - other.x) < SAFE_FOLLOWING_DISTANCE

\* check_car_collision: the loop over other_cars from index j on, with its
\* early returns (true in the same-direction arm, false in the opposite one)
RECURSIVE CollisionLoop(_, _, _)
CollisionLoop(car, other_cars, j) ==
    IF j > Len(other_cars) THEN FALSE
    ELSE LET other == other_cars[j] IN
         IF ptr_eq(car, other) THEN CollisionLoop(car, other_cars, j + 1)
         ELSE IF other.in_intersection THEN CollisionLoop(car, other_cars, j + 1)
         ELSE IF TooCloseBehind(car, other) THEN TRUE
         ELSE IF OppositeClose(car, other) THEN FALSE
         ELSE CollisionLoop(car, other_cars, j + 1)

\* the following check applied to cars inside an intersection as well
CollisionIgnoringFlag(car, other_cars) == CollisionLoop(car, other_cars, 1)

\* check_car_collision
check_car_collision(car, other_cars) ==
    IF car.in_intersection THEN FALSE
    ELSE CollisionLoop(car, other_cars, 1)

----------------------------------------------------------------------------
(* car.rs: movement helpers                                                *)

\* the outcomes of the two random draws of plan_next_turn
Draws == {"straight", "first", "second"}

\* the planning choosing between the two directions of the car's own axis
PlanNextTurnAlongAxis(current_direction, draw) ==
    IF draw = "straight" THEN None
    ELSE IF current_direction = Down \/ current_direction = Up
         THEN (IF draw = "first" THEN Down ELSE Up)
         ELSE (IF draw = "first" THEN Right ELSE Left)

\* plan_next_turn: draw "straight" is rand >= TURN_PROBABILITY, "first" is
\* gen_range(0, 2) == 0
plan_next_turn(current_direction, draw) ==
    IF draw = "straight" THEN None
    ELSE IF current_direction = Down \/ current_direction = Up
         THEN (IF draw = "first" THEN Right ELSE Left)
         ELSE (IF draw = "first" THEN Down ELSE Up)

\* handle_car_turn: the condition under which the turn is executed
TurnsAt(car, at_center) ==
    at_center /\ car.next_turn # None /\ ~car.just_turned

\* the turn putting the car in the lane on the other side of the center
HandleCarTurnMirrored(car, id, draw) ==
    LET new_direction == car.next_turn IN
    [car EXCEPT
        !.direction = new_direction,
        !.x = CASE new_direction = Down -> IntX(id) + LANE_OFFSET
                [] new_direction = Up -> IntX(id) - LANE_OFFSET
                [] OTHER -> IntX(id),
        !.y = CASE new_direction = Right -> IntY(id) - LANE_OFFSET
                [] new_direction = Left -> IntY(id) + LANE_OFFSET
                [] OTHER -> IntY(id),
        !.next_turn = plan_next_turn(new_direction, draw),
        !.just_turned = TRUE]

\* handle_car_turn: the car after an executed turn at intersection id
handle_car_turn(car, id, draw) ==
    LET new_direction == car.next_turn IN
    [car EXCEPT
        !.direction = new_direction,
        !.x = CASE new_direction = Down -> IntX(id) - LANE_OFFSET
                [] new_direction = Up -> IntX(id) + LANE_OFFSET
                [] OTHER -> IntX(id),
        !.y = CASE new_direction = Right -> IntY(id) + LANE_OFFSET
                [] new_direction = Left -> IntY(id) - LANE_OFFSET
                [] OTHER -> IntY(id),
        !.next_turn = plan_next_turn(new_direction, draw),
        !.just_turned = TRUE]

\* move_car with cars heading Up twice as fast as the others
MoveCarUpFaster(car, dt) ==
    CASE car.direction = Down -> [car EXCEPT !.y = car.y + CAR_SPEED * dt]
      [] car.direction = Up -> [car EXCEPT !.y = car.y - 2 * CAR_SPEED * dt]
      [] car.direction = Right -> [car EXCEPT !.x = car.x + CAR_SPEED * dt]
      [] car.direction = Left -> [car EXCEPT !.x = car.x - CAR_SPEED * dt]

\* move_car: CAR_SPEED * dt pixels along the direction
move_car(car, dt) ==
    CASE car.direction = Down -> [car EXCEPT !.y = car.y + CAR_SPEED * dt]
      [] car.direction = Up -> [car EXCEPT !.y = car.y - CAR_SPEED * dt]
      [] car.direction = Right -> [car EXCEPT !.x = car.x + CAR_SPEED * dt]
      [] car.direction = Left -> [car EXCEPT !.x = car.x - CAR_SPEED * dt]

\* the viewport test keeping a car that sits exactly on the margin
IsOnScreenClosed(car) ==
    /\ 10 * car.x >= -ScreenW /\ 10 * car.x <= 11 * ScreenW
    /\ 10 * car.y >= -ScreenH /\ 10 * car.y <= 11 * ScreenH

\* is_car_on_screen: -0.1 < x_percent < 1.1 and -0.1 < y_percent < 1.1
is_car_on_screen(car) ==
    /\ 10 * car.x > -ScreenW /\ 10 * car.x < 11 * ScreenW
    /\ 10 * car.y > -ScreenH /\ 10 * car.y < 11 * ScreenH

\* a turn window of 4 px instead of 20 px
AtIntersectionCenterNarrow(direction, car_x, car_y, id) ==
    IF direction = Down \/ direction = Up
    THEN Abs(car_x - IntX(id)) < 15 /\ Abs(car_y - IntY(id)) < 2
    ELSE Abs(car_y - IntY(id)) < 15 /\ Abs(car_x - IntX(id)) < 2

\* update_car_at_intersection: at_intersection_center, from the position
\* read before the loop
at_intersection_center(direction, car_x, car_y, id) ==
    IF direction = Down \/ direction = Up
    THEN Abs(car_x - IntX(id)) < 15 /\ Abs(car_y - IntY(id)) < 10
    ELSE Abs(car_y - IntY(id)) < 15 /\ Abs(car_x - IntX(id)) < 10

\* update_car_at_intersection: the loop over the intersections from id on
\* (City::update_cars hands them over in the order of HashMap::values, which
\* is unspecified; the intersections lie more than two stop zones apart, so
\* at most one of them reacts to a car and the order decides nothing);
\* car_x, car_y are the coordinates read before the loop
RECURSIVE IntersectionLoop(_, _, _, _, _, _)
IntersectionLoop(car, car_x, car_y, id, at_any_intersection, draw) ==
    IF id >= NumIntersections
    THEN [car |-> car, at_any_intersection |-> at_any_intersection, turned |-> FALSE]
    ELSE LET at_intersection == WithinRadius(car_x, car_y, id)
             any == at_any_intersection \/ at_intersection
             car1 == IF at_intersection THEN [car EXCEPT !.in_intersection = TRUE] ELSE car
         IN IF TurnsAt(car1, at_intersection_center(car1.direction, car_x, car_y, id))
            THEN [car |-> handle_car_turn(car1, id, draw),
                  at_any_intersection |-> any, turned |-> TRUE]
            ELSE IntersectionLoop(car1, car_x, car_y, id + 1, any, draw)

\* update_car_at_intersection
update_car_at_intersection(car, draw) == IntersectionLoop(car, car.x, car.y, 0, FALSE, draw)

\* should_car_stop: the loop over the intersections from id on; the result
\* names the check that returned true
RECURSIVE StopLoop(_, _, _, _, _)
StopLoop(car, ls, other_cars, all_lights_red, id) ==
    IF id >= NumIntersections
    THEN (IF check_car_collision(car, other_cars) THEN "collision" ELSE "none")
    ELSE LET light_state == IF all_lights_red THEN 0
                            ELSE get_light_state_for_direction(ls[id], car.direction)
             approaching_intersection ==
                CASE car.direction = Down ->
                       Abs(car.x - IntX(id)) < 20 /\ IntY(id) > car.y /\ IntY(id) - car.y < 50
                  [] car.direction = Up ->
                       Abs(car.x - IntX(id)) < 20 /\ IntY(id) < car.y /\ car.y - IntY(id) < 50
                  [] car.direction = Right ->
                       Abs(car.y - IntY(id)) < 20 /\ IntX(id) > car.x /\ IntX(id) - car.x < 50
                  [] car.direction = Left ->
                       Abs(car.y - IntY(id)) < 20 /\ IntX(id) < car.x /\ car.x - IntX(id) < 50
         IN IF check_traffic_light_at_intersection(car, IntX(id), IntY(id), light_state)
            THEN "light"
            ELSE IF /\ ~car.in_intersection
                    /\ approaching_intersection
                    /\ check_intersection_occupied(car, IntX(id), IntY(id), other_cars)
            THEN "occupied"
            ELSE StopLoop(car, ls, other_cars, all_lights_red, id + 1)

\* should_car_stop called with the override dropped
StopReasonNoOverride(car, ls, other_cars, all_lights_red) ==
    StopLoop(car, ls, other_cars, FALSE, 0)

\* should_car_stop, with the reason
StopReason(car, ls, other_cars, all_lights_red) == StopLoop(car, ls, other_cars, all_lights_red, 0)

should_car_stop(car, ls, other_cars, all_lights_red) ==
    StopReason(car, ls, other_cars, all_lights_red) # "none"

\* the closure clearing just_turned in every update without a turn, inside
\* a capture radius or not
CarStepForgetsTurn(car, cars_copy, ls, dt, all_lights_red, draw) ==
    LET r == update_car_at_intersection(car, draw)
        c0 == IF ~r.at_any_intersection
              THEN [r.car EXCEPT !.just_turned = FALSE, !.in_intersection = FALSE]
              ELSE r.car
        c1 == IF r.turned THEN c0 ELSE [c0 EXCEPT !.just_turned = FALSE]
        reason == StopReason(c1, ls, cars_copy, all_lights_red)
        c2 == IF reason = "none" THEN move_car(c1, dt) ELSE c1
    IN [before |-> car, updated |-> c1, in_intersection |-> c1.in_intersection,
        turned |-> r.turned, reason |-> reason, after |-> c2,
        kept |-> is_car_on_screen(c2)]

\* the closure leaving in_intersection set once the car has left every
\* capture radius
CarStepKeepsFlag(car, cars_copy, ls, dt, all_lights_red, draw) ==
    LET r == update_car_at_intersection(car, draw)
        c1 == IF ~r.at_any_intersection
              THEN [r.car EXCEPT !.just_turned = FALSE]
              ELSE r.car
        reason == StopReason(c1, ls, cars_copy, all_lights_red)
        c2 == IF reason = "none" THEN move_car(c1, dt) ELSE c1
    IN [before |-> car, updated |-> c1, in_intersection |-> c1.in_intersection,
        turned |-> r.turned, reason |-> reason, after |-> c2,
        kept |-> is_car_on_screen(c2)]

\* update_cars: the body of the retain_mut closure for one car.  The
\* result keeps the car as it was (before), the car and its in_intersection
\* flag after the membership update (updated), whether it turned, the stop
\* decision, the car after the move and whether retain_mut keeps it.
CarStep(car, cars_copy, ls, dt, all_lights_red, draw) ==
    LET r == update_car_at_intersection(car, draw)
        c1 == IF ~r.at_any_intersection
              THEN [r.car EXCEPT !.just_turned = FALSE, !.in_intersection = FALSE]
              ELSE r.car
        reason == StopReason(c1, ls, cars_copy, all_lights_red)
        c2 == IF reason = "none" THEN move_car(c1, dt) ELSE c1
    IN [before |-> car, updated |-> c1, in_intersection |-> c1.in_intersection,
        turned |-> r.turned, reason |-> reason, after |-> c2,
        kept |-> is_car_on_screen(c2)]

\* whether car would execute a turn in its update (the draw is read only then)
WouldTurn(car) == update_car_at_intersection(car, "straight").turned

\* the draws update_cars may consume: one per car in pool order, read by
\* plan_next_turn only when the car turns
RECURSIVE DrawsFrom(_, _)
DrawsFrom(pool, k) ==
    IF k > Len(pool) THEN {<<>>}
    ELSE {<<d>> \o rest :
            d \in (IF WouldTurn(pool[k]) THEN Draws ELSE {"straight"}),
            rest \in DrawsFrom(pool, k + 1)}

DrawsFor(pool) == DrawsFrom(pool, 1)

\* update_cars: the per-car results, in pool order, against the snapshot
\* cars_copy = pool taken before the first car is updated
CarResults(pool, ls, dt, all_lights_red, draws) ==
    [k \in 1 .. Len(pool) |-> CarStep(pool[k], pool, ls, dt, all_lights_red, draws[k])]

RECURSIVE Retain(_, _)
Retain(results, k) ==
    IF k > Len(results) THEN <<>>
    ELSE IF results[k].kept THEN <<results[k].after>> \o Retain(results, k + 1)
    ELSE Retain(results, k + 1)

\* update_cars: the pool after retain_mut
update_cars(pool, ls, dt, all_lights_red, draws) ==
    Retain(CarResults(pool, ls, dt, all_lights_red, draws), 1)

----------------------------------------------------------------------------
(* spawner.rs                                                              *)

\* the random draws of spawn_car: is_vertical, road_index, going_down or
\* going_right (forward), and the turn draw
SpawnChoices ==
    {[is_vertical |-> v, road_index |-> r, forward |-> f, draw |-> d] :
        v \in BOOLEAN, r \in 0 .. 2, f \in BOOLEAN, d \in Draws}
    \ {[is_vertical |-> FALSE, road_index |-> 2, forward |-> f, draw |-> d] :
        f \in BOOLEAN, d \in Draws}

\* spawn_car putting every car in the lane on the other side of the road
SpawnCarRightHand(ch) ==
    IF ch.is_vertical
    THEN LET road_center == (VERTICAL_ROAD_POSITIONS[ch.road_index + 1] * ScreenW) \div 100 IN
         Car(IF ch.forward THEN road_center + LANE_OFFSET ELSE road_center - LANE_OFFSET,
             IF ch.forward THEN (-5 * ScreenH) \div 100 ELSE (105 * ScreenH) \div 100,
             IF ch.forward THEN Down ELSE Up, None)
    ELSE LET road_center == (HORIZONTAL_ROAD_POSITIONS[ch.road_index + 1] * ScreenH) \div 100 IN
         Car(IF ch.forward THEN (-5 * ScreenW) \div 100 ELSE (105 * ScreenW) \div 100,
             IF ch.forward THEN road_center - LANE_OFFSET ELSE road_center + LANE_OFFSET,
             IF ch.forward THEN Right ELSE Left, None)

\* spawn_car: the car pushed onto the pool
spawn_car(ch) ==
    IF ch.is_vertical
    THEN LET road_center == (VERTICAL_ROAD_POSITIONS[ch.road_index + 1] * ScreenW) \div 100 IN
         Car(IF ch.forward THEN road_center - LANE_OFFSET ELSE road_center + LANE_OFFSET,
             IF ch.forward THEN (-5 * ScreenH) \div 100 ELSE (105 * ScreenH) \div 100,
             IF ch.forward THEN Down ELSE Up,
             CASE ch.draw = "straight" -> None
               [] ch.draw = "first" -> Right
               [] ch.draw = "second" -> Left)
    ELSE LET road_center == (HORIZONTAL_ROAD_POSITIONS[ch.road_index + 1] * ScreenH) \div 100 IN
         Car(IF ch.forward THEN (-5 * ScreenW) \div 100 ELSE (105 * ScreenW) \div 100,
             IF ch.forward THEN road_center + LANE_OFFSET ELSE road_center - LANE_OFFSET,
             IF ch.forward THEN Right ELSE Left,
             CASE ch.draw = "straight" -> None
               [] ch.draw = "first" -> Down
               [] ch.draw = "second" -> Up)

\* the gate opening as soon as the interval has elapsed
SpawnDueAtInterval(current_time, last) == current_time - last >= CAR_SPAWN_INTERVAL

\* CarSpawner::try_spawn: the gate
SpawnDue(current_time, last) == current_time - last > CAR_SPAWN_INTERVAL

----------------------------------------------------------------------------
(* city.rs: a city is the record [cars, lights, last_spawn_time]           *)

\* City::spawn_cars (CarSpawner::try_spawn at clock value current_time)
spawn_cars(city, current_time, ch) ==
    IF SpawnDue(current_time, city.last_spawn_time)
    THEN [city EXCEPT !.cars = Append(city.cars, spawn_car(ch)),
                      !.last_spawn_time = current_time]
    ELSE city

\* City::update_traffic_lights
update_traffic_lights(ls, dt) == [id \in DOMAIN ls |-> update_lights(ls[id], dt)]

\* City::update with the lights paused while the override is on
CityBeforeCarsPaused(city, current_time, dt, all_lights_red, ch) ==
    LET c1 == spawn_cars(city, current_time, ch) IN
    IF all_lights_red THEN c1
    ELSE [c1 EXCEPT !.lights = update_traffic_lights(c1.lights, dt)]

\* City::update up to the car update: spawn, then the lights
CityBeforeCars(city, current_time, dt, all_lights_red, ch) ==
    LET c1 == spawn_cars(city, current_time, ch) IN
    [c1 EXCEPT !.lights = update_traffic_lights(c1.lights, dt)]

\* City::update running the car update first, on the pool and the lights
\* the previous call left
CityUpdateCarsFirst(city, current_time, dt, all_lights_red, ch, draws) ==
    LET c1 == [city EXCEPT !.cars = update_cars(city.cars, city.lights, dt,
                                                all_lights_red, draws)]
    IN CityBeforeCars(c1, current_time, dt, all_lights_red, ch)

\* City::update: spawn_cars, update_traffic_lights(dt), update_cars(dt, all_lights_red)
CityUpdate(city, current_time, dt, all_lights_red, ch, draws) ==
    LET c2 == CityBeforeCars(city, current_time, dt, all_lights_red, ch) IN
    [c2 EXCEPT !.cars = update_cars(c2.cars, c2.lights, dt, all_lights_red, draws)]

----------------------------------------------------------------------------
(* input.rs                                                                *)

\* handle_input(all_lights_red, danger_mode) in a frame in which
\* is_key_pressed holds of the keys in pressed: the returned tuple, as a
\* record
handle_input(all_lights_red, danger_mode, pressed) ==
    LET red1 == IF "Enter" \in pressed THEN ~all_lights_red ELSE all_lights_red
        red2 == IF "Escape" \in pressed THEN FALSE ELSE red1
        danger1 == IF "Escape" \in pressed THEN FALSE ELSE danger_mode
        danger2 == IF "LeftShift" \in pressed THEN ~danger1 ELSE danger1
    IN [all_lights_red |-> red2,
        danger_mode |-> danger2,
        toggle_all_scada |-> "S" \in pressed,
        reset_scada |-> "Escape" \in pressed,
        toggle_barrier |-> "B" \in pressed]

\* constants.rs, window::RESIZE_THRESHOLD (pixels)
RESIZE_THRESHOLD == 1

\* WindowState::new: the screen size at start
WindowStateNew == [width |-> ScreenW, height |-> ScreenH]

\* check_resize forgetting to store the size it has compared with
CheckResizeNotStoring(ws, current_width, current_height, threshold) ==
    [window |-> ws,
     resized |-> \/ Abs(current_width - ws.width) > threshold
                 \/ Abs(current_height - ws.height) > threshold]

\* WindowState::check_resize(threshold) while screen_width() and
\* screen_height() return current_width and current_height: the WindowState
\* afterwards and the value returned
check_resize(ws, current_width, current_height, threshold) ==
    LET width_changed == Abs(current_width - ws.width) > threshold
        height_changed == Abs(current_height - ws.height) > threshold
    IN IF width_changed \/ height_changed
       THEN [window |-> [width |-> current_width, height |-> current_height],
             resized |-> TRUE]
       ELSE [window |-> ws, resized |-> FALSE]

----------------------------------------------------------------------------
(* logging.rs: a LogWindow is the record [entries, max_entries, visible];  *)
(* an entry is named by the number of the log call that made it            *)

\* LogWindow::new
LogWindowNew(max_entries) == [entries |-> <<>>, max_entries |-> max_entries, visible |-> TRUE]

\* LogWindow::log evicting the newest entry when the window is full
LogWindowLogDroppingNewest(lw, entry) ==
    LET pushed == Append(lw.entries, entry) IN
    [lw EXCEPT !.entries = IF Len(pushed) > lw.max_entries
                           THEN SubSeq(pushed, 1, Len(pushed) - 1) ELSE pushed]

\* LogWindow::log: push_back, then pop_front if longer than max_entries
LogWindowLog(lw, entry) ==
    LET pushed == Append(lw.entries, entry) IN
    [lw EXCEPT !.entries = IF Len(pushed) > lw.max_entries THEN Tail(pushed) ELSE pushed]

\* LogWindow::toggle_visibility
toggle_visibility(lw) == [lw EXCEPT !.visible = ~lw.visible]

\* main.rs: LogWindow::new(50) and the first message logged
MainLogWindow == LogWindowLog(LogWindowNew(50), 1)

----------------------------------------------------------------------------
(* events.rs: the channel is std::sync::mpsc::channel(), an unbounded FIFO *)
(* queue; events are named by the number of the send call that sent them   *)

\* mpsc::Sender::send while the receiver exists
send(ch, event) == [ch EXCEPT !.queue = Append(@, event), !.sent = @ + 1]

\* mpsc::Receiver::try_recv: Ok(event) with the head of the queue, or
\* Err(Empty) at once
try_recv(queue) ==
    IF queue = <<>> THEN [ok |-> FALSE, event |-> 0, rest |-> queue]
    ELSE [ok |-> TRUE, event |-> Head(queue), rest |-> Tail(queue)]

\* EventReceiver::poll: Vec::new() on entry
PollEntry(ch) ==
    [ch EXCEPT !.polling = TRUE, !.pending = ch.queue, !.events = <<>>]

\* a poll reading the channel once, with if let in place of while let
PollIterationOnce(ch) ==
    LET r == try_recv(ch.queue)
        events == IF r.ok THEN Append(ch.events, r.event) ELSE ch.events
    IN [ch EXCEPT !.queue = r.rest, !.polling = FALSE, !.returned = events,
                  !.delivered = @ \o events, !.events = <<>>, !.polls = @ + 1]

\* EventReceiver::poll: one evaluation of the while-let condition, with the
\* push when try_recv returned Ok and the return of events when it did not
PollIteration(ch) ==
    LET r == try_recv(ch.queue) IN
    IF r.ok
    THEN [ch EXCEPT !.queue = r.rest, !.events = Append(@, r.event)]
    ELSE [ch EXCEPT !.polling = FALSE, !.returned = ch.events,
                    !.delivered = @ \o ch.events, !.events = <<>>, !.polls = @ + 1]

----------------------------------------------------------------------------
(* Bounds of the model                                                     *)

\* cars the spawner may create in a run of the main loop
MaxSpawns == 1
\* update_cars calls applied to a seeded pool
MaxFrames == 1
\* cars in a seeded pool spread over both roads of intersection 0
MaxPoolCars == 2
\* light phases a seeded city may start from (steps of PhaseDt)
MaxPhase == 4

\* frame times (get_frame_time) of the main loop, of update_cars on seeded
\* pools, and of the bare light controllers (the IntersectionTrafficLight
\* also takes dt = 0 and an overshooting 3.5 s)
FrameDts == {1, 2}
CarDts == {1, 2}
LightDts == {5, 10}
ItlDts == LightDts \cup {0, 35}
PhaseDt == 20

----------------------------------------------------------------------------
(* State of the program                                                    *)

NoLog == [snapshot |-> <<>>, results |-> <<>>, dt |-> 0, all_lights_red |-> FALSE,
          draws |-> <<>>]

\* the second run before its first call: City::new() with the generated
\* intersections, its clock at 0
NoReplay == [cars |-> <<>>, lights |-> generate_intersections, last_spawn_time |-> 0,
             time |-> 0]

\* the keys handle_input reads
Keys == {"Enter", "Escape", "LeftShift", "S", "B"}

\* main.rs: the control modes before the first frame; no key read yet
NoModes == [all_lights_red |-> FALSE, danger_mode |-> FALSE, toggle_all_scada |-> FALSE,
            reset_scada |-> FALSE, toggle_barrier |-> FALSE, pressed |-> {},
            barrier_open |-> FALSE]

\* create_event_channel: mpsc::channel(), nothing sent.  queue holds the
\* events in flight, sent counts the send calls, polling says whether a
\* poll call is in its loop, pending what the queue held when that call
\* began, events is the vector the call is filling, returned the vector the
\* last finished call returned, delivered every event returned so far.
NewChannel == [queue |-> <<>>, sent |-> 0, polling |-> FALSE, pending |-> <<>>,
               events |-> <<>>, returned |-> <<>>, delivered |-> <<>>, polls |-> 0]

\* main.rs: City::new(), add_intersection for each of generate_intersections();
\* the two IntersectionTrafficLight controllers are built by new(.., true/false)
Init ==
    /\ lights = generate_intersections
    /\ itl = [b \in BOOLEAN |-> ItlNew(b)]
    /\ cars = <<>>
    /\ time = 0
    /\ last_spawn_time = 0
    /\ spawned = 0
    /\ frames = 0
    /\ replay = NoReplay
    /\ modes = NoModes
    /\ channel = NewChannel
    /\ window = WindowStateNew
    /\ log_window = MainLogWindow
    /\ log = NoLog
    /\ shadow = generate_intersections

TheCity == [cars |-> cars, lights |-> lights, last_spawn_time |-> last_spawn_time]

\* one iteration of the main loop: the clock advances by the frame time and
\* City::update(dt, all_lights_red) runs.  The twin city receives the same
\* call with the override off.
Frame(dt, all_lights_red) ==
    LET now == time + dt
        due == SpawnDue(now, last_spawn_time)
    IN /\ due => spawned < MaxSpawns
       /\ \E ch \in (IF due THEN SpawnChoices ELSE {CHOOSE c \in SpawnChoices : TRUE}) :
            LET c2 == CityBeforeCars(TheCity, now, dt, all_lights_red, ch) IN
            \E draws \in DrawsFor(c2.cars) :
                LET c3 == CityUpdate(TheCity, now, dt, all_lights_red, ch, draws)
                    twin == CityUpdate([TheCity EXCEPT !.lights = shadow],
                                       now, dt, FALSE, ch, draws)
                IN /\ cars' = c3.cars
                   /\ lights' = c3.lights
                   /\ last_spawn_time' = c3.last_spawn_time
                   /\ shadow' = twin.lights
                   /\ log' = [snapshot |-> c2.cars,
                              results |-> CarResults(c2.cars, c2.lights, dt,
                                                     all_lights_red, draws),
                              dt |-> dt, all_lights_red |-> all_lights_red,
                              draws |-> draws]
                   /\ time' = now
                   /\ spawned' = IF due THEN spawned + 1 ELSE spawned
                   /\ UNCHANGED <<itl, frames, replay, modes, channel, window, log_window>>

Next == \E dt \in FrameDts, all_lights_red \in BOOLEAN : Frame(dt, all_lights_red)

Spec == Init /\ [][Next]_vars

----------------------------------------------------------------------------
(* The light controllers alone                                             *)

\* City::update_traffic_lights(dt) on its own
UpdateTrafficLights(dt) ==
    /\ lights' = update_traffic_lights(lights, dt)
    /\ shadow' = update_traffic_lights(shadow, dt)
    /\ UNCHANGED <<itl, cars, time, last_spawn_time, spawned, frames, log, replay, modes, channel, window, log_window>>

\* IntersectionTrafficLight::update(dt) on both controllers
ItlStep(dt) ==
    /\ itl' = [b \in BOOLEAN |-> ItlUpdate(itl[b], dt)]
    /\ UNCHANGED <<lights, cars, time, last_spawn_time, spawned, frames, log, shadow, replay, modes, channel, window, log_window>>

NextLights ==
    \/ \E dt \in LightDts : UpdateTrafficLights(dt)
    \/ \E dt \in ItlDts : ItlStep(dt)

SpecLights == Init /\ [][NextLights]_vars

----------------------------------------------------------------------------
(* The light controllers updated for ever: the main loop calls             *)
(* City::update in every frame, and every frame takes time                 *)

NextLive ==
    \/ \E dt \in LightDts : UpdateTrafficLights(dt)
    \/ \E dt \in LightDts : ItlStep(dt)

SpecLive ==
    /\ Init
    /\ [][NextLive]_vars
    /\ WF_vars(\E dt \in LightDts : UpdateTrafficLights(dt))
    /\ WF_vars(\E dt \in LightDts : ItlStep(dt))

----------------------------------------------------------------------------
(* The two IntersectionTrafficLight controllers over a stretch of          *)
(* simulated time                                                          *)

\* simulated time (tenths of a second) over which the pair is advanced
MaxItlTime == 240

\* IntersectionTrafficLight::update(dt) on both controllers, the simulated
\* time counted
ItlTick(dt) ==
    /\ time + dt <= MaxItlTime
    /\ itl' = [b \in BOOLEAN |-> ItlUpdate(itl[b], dt)]
    /\ time' = time + dt
    /\ UNCHANGED <<lights, cars, last_spawn_time, spawned, frames, log, shadow, replay, modes, channel, window, log_window>>

NextItl == \E dt \in ItlDts : ItlTick(dt)

SpecItl == Init /\ [][NextItl]_vars

----------------------------------------------------------------------------
(* The two IntersectionTrafficLight controllers driven by ticks of one     *)
(* fixed length that divides the phase durations                           *)

\* tick lengths (tenths of a second) dividing GREEN_DURATION, YELLOW_DURATION
\* and RED_DURATION
CycleDts == {1, 2, 5, 10}

\* IntersectionTrafficLight::update(dt) on both controllers, every call of
\* the run with the same dt; frames counts the calls
CycleTick(dt) ==
    /\ time = frames * dt
    /\ time + dt <= MaxItlTime
    /\ itl' = [b \in BOOLEAN |-> ItlUpdate(itl[b], dt)]
    /\ time' = time + dt
    /\ frames' = frames + 1
    /\ UNCHANGED <<lights, cars, last_spawn_time, spawned, log, shadow, replay, modes, channel, window, log_window>>

NextCycle == \E dt \in CycleDts : CycleTick(dt)

SpecCycle == Init /\ [][NextCycle]_vars

----------------------------------------------------------------------------
(* The light controllers under frame times of any length                   *)

\* frame times from none at all to more than a whole cycle (10 s)
TimerDts == {0, 5, 10, 35, 100}

NextTimer ==
    \/ \E dt \in TimerDts : UpdateTrafficLights(dt)
    \/ \E dt \in TimerDts : ItlStep(dt)

SpecTimer == Init /\ [][NextTimer]_vars

----------------------------------------------------------------------------
(* Two runs of the same city: the same City::update calls, the same seeded *)
(* random source, each run reading its own wall clock                      *)

\* City::update calls replayed
MaxReplayFrames == 7

\* by how much longer (tenths of a second of wall-clock time) a call of the
\* second run may come after its predecessor
ClockLags == {0, 1}

\* the values a run takes from the random source in one call: the spawn
\* draws when the spawner fires, one turn draw per car
RandomChoices(city, now, dt, all_lights_red) ==
    UNION {{<<ch, draws>> :
              draws \in DrawsFor(CityBeforeCars(city, now, dt, all_lights_red, ch).cars)} :
           ch \in (IF SpawnDue(now, city.last_spawn_time) THEN SpawnChoices
                   ELSE {CHOOSE c \in SpawnChoices : TRUE})}

\* one City::update(dt, all_lights_red) in both runs.  get_time() returns
\* time + dt in the first run and lag more in the second; the two runs take
\* the same values from the random source as long as they consume it alike.
ReplayFrame(dt, all_lights_red, lag) ==
    LET now == time + dt
        now2 == replay.time + dt + lag
        city2 == [cars |-> replay.cars, lights |-> replay.lights,
                  last_spawn_time |-> replay.last_spawn_time]
        alike == /\ SpawnDue(now, last_spawn_time) = SpawnDue(now2, city2.last_spawn_time)
                 /\ cars = city2.cars
    IN /\ frames < MaxReplayFrames
       /\ \E r1 \in RandomChoices(TheCity, now, dt, all_lights_red) :
          \E r2 \in (IF alike THEN {r1}
                     ELSE RandomChoices(city2, now2, dt, all_lights_red)) :
             LET c2 == CityBeforeCars(TheCity, now, dt, all_lights_red, r1[1])
                 c3 == CityUpdate(TheCity, now, dt, all_lights_red, r1[1], r1[2])
                 d3 == CityUpdate(city2, now2, dt, all_lights_red, r2[1], r2[2])
             IN /\ cars' = c3.cars
                /\ lights' = c3.lights
                /\ last_spawn_time' = c3.last_spawn_time
                /\ time' = now
                /\ replay' = [cars |-> d3.cars, lights |-> d3.lights,
                              last_spawn_time |-> d3.last_spawn_time, time |-> now2]
                /\ shadow' = CityBeforeCars([TheCity EXCEPT !.lights = shadow],
                                            now, dt, FALSE, r1[1]).lights
                /\ log' = [snapshot |-> c2.cars,
                           results |-> CarResults(c2.cars, c2.lights, dt,
                                                  all_lights_red, r1[2]),
                           dt |-> dt, all_lights_red |-> all_lights_red,
                           draws |-> r1[2]]
                /\ spawned' = Len(c2.cars) - Len(cars) + spawned
                /\ frames' = frames + 1
                /\ UNCHANGED <<itl, modes, channel, window, log_window>>

NextReplay ==
    \E dt \in FrameDts, all_lights_red \in BOOLEAN, lag \in ClockLags :
        ReplayFrame(dt, all_lights_red, lag)

SpecReplay == Init /\ [][NextReplay]_vars

----------------------------------------------------------------------------
(* One intersection on its own: Intersection::new, add_light,              *)
(* clear_lights, update_lights and get_light_state_for_direction           *)

\* lights an intersection may hold
MaxLights == 2

\* the intersection the calls are made on
QueryId == 0

NoQuery == [queried |-> FALSE, direction |-> Down, result |-> 0, lights |-> <<>>]

\* Intersection::new for every grid point: no light yet
InitQuery ==
    /\ lights = [id \in IntIds |-> <<>>]
    /\ shadow = [id \in IntIds |-> <<>>]
    /\ log = NoQuery
    /\ itl = [b \in BOOLEAN |-> ItlNew(b)]
    /\ cars = <<>>
    /\ time = 0
    /\ last_spawn_time = 0
    /\ spawned = 0
    /\ frames = 0
    /\ replay = NoReplay
    /\ modes = NoModes
    /\ channel = NewChannel
    /\ window = WindowStateNew
    /\ log_window = MainLogWindow

\* Intersection::add_light(TrafficLight::new(.., controls_vertical, initial_state))
AddLight(controls_vertical, initial_state) ==
    /\ Len(lights[QueryId]) < MaxLights
    /\ lights' = [lights EXCEPT ![QueryId] =
                     Append(@, TrafficLightNew(controls_vertical, initial_state))]
    /\ UNCHANGED <<itl, cars, time, last_spawn_time, spawned, frames, log, shadow, replay, modes, channel, window, log_window>>

\* Intersection::clear_lights
ClearLights ==
    /\ lights' = [lights EXCEPT ![QueryId] = <<>>]
    /\ UNCHANGED <<itl, cars, time, last_spawn_time, spawned, frames, log, shadow, replay, modes, channel, window, log_window>>

\* Intersection::update_lights(dt)
UpdateLights(dt) ==
    /\ lights' = [lights EXCEPT ![QueryId] = update_lights(@, dt)]
    /\ UNCHANGED <<itl, cars, time, last_spawn_time, spawned, frames, log, shadow, replay, modes, channel, window, log_window>>

\* Intersection::get_light_state_for_direction(direction); the call and its
\* result are recorded
GetLightState(direction) ==
    /\ log' = [queried |-> TRUE, direction |-> direction,
               result |-> get_light_state_for_direction(lights[QueryId], direction),
               lights |-> lights[QueryId]]
    /\ UNCHANGED <<lights, itl, cars, time, last_spawn_time, spawned, frames, shadow, replay, modes, channel, window, log_window>>

NextQuery ==
    \/ \E controls_vertical \in BOOLEAN,
          initial_state \in {default_red, default_yellow, default_green} :
          AddLight(controls_vertical, initial_state)
    \/ ClearLights
    \/ UpdateLights(PhaseDt)
    \/ \E direction \in Direction : GetLightState(direction)

SpecQuery == InitQuery /\ [][NextQuery]_vars

----------------------------------------------------------------------------
(* The spawner on its own: CarSpawner::new(CAR_SPAWN_INTERVAL) and         *)
(* try_spawn calls at growing clock values                                 *)

\* the clock value (tenths of a second) up to which try_spawn is called
MaxClock == 48

\* wall-clock time between two try_spawn calls: a frame, exactly the
\* interval, just above it, and more than twice the interval
SpawnGaps == {1, CAR_SPAWN_INTERVAL, CAR_SPAWN_INTERVAL + 1, 2 * CAR_SPAWN_INTERVAL + 2}

\* CarSpawner::try_spawn(&mut cars) with get_time() = time + gap
TrySpawn(gap) ==
    LET now == time + gap
        due == SpawnDue(now, last_spawn_time)
    IN /\ now <= MaxClock
       /\ \E ch \in (IF due THEN SpawnChoices ELSE {CHOOSE c \in SpawnChoices : TRUE}) :
            LET c1 == spawn_cars(TheCity, now, ch) IN
            /\ cars' = c1.cars
            /\ last_spawn_time' = c1.last_spawn_time
            /\ spawned' = spawned + Len(c1.cars) - Len(cars)
       /\ time' = now
       /\ UNCHANGED <<lights, itl, frames, log, shadow, replay, modes, channel, window, log_window>>

NextSpawner == \E gap \in SpawnGaps : TrySpawn(gap)

SpecSpawner == Init /\ [][NextSpawner]_vars

----------------------------------------------------------------------------
(* The input handling of the main loop on its own                          *)

\* main loop: handle_input(all_lights_red, danger_mode), the assignment of
\* the two modes it returns and the barrier toggle
HandleInput(pressed) ==
    /\ LET out == handle_input(modes.all_lights_red, modes.danger_mode, pressed) IN
       modes' = out @@ [pressed |-> pressed,
                        barrier_open |-> IF out.toggle_barrier THEN ~modes.barrier_open
                                         ELSE modes.barrier_open]
    /\ UNCHANGED <<lights, itl, cars, time, last_spawn_time, spawned, frames, log,
                   shadow, replay, channel, window, log_window>>

NextInput == \E pressed \in SUBSET Keys : HandleInput(pressed)

SpecInput == Init /\ [][NextInput]_vars

----------------------------------------------------------------------------
(* The event channel: the SSE thread sends while the main loop polls       *)

\* events the SSE thread sends, poll calls the main loop makes
MaxEvents == 4
MaxPolls == 3

\* SSE thread: EventSender::send(event)
Send ==
    /\ channel.sent < MaxEvents
    /\ channel' = send(channel, channel.sent + 1)
    /\ UNCHANGED <<lights, itl, cars, time, last_spawn_time, spawned, frames, log,
                   shadow, replay, modes, window, log_window>>

\* main loop: EventReceiver::poll is entered
PollBegin ==
    /\ ~channel.polling
    /\ channel.polls < MaxPolls
    /\ channel' = PollEntry(channel)
    /\ UNCHANGED <<lights, itl, cars, time, last_spawn_time, spawned, frames, log,
                   shadow, replay, modes, window, log_window>>

\* main loop: the next try_recv of the poll in progress
PollStep ==
    /\ channel.polling
    /\ channel' = PollIteration(channel)
    /\ UNCHANGED <<lights, itl, cars, time, last_spawn_time, spawned, frames, log,
                   shadow, replay, modes, window, log_window>>

NextEvents == Send \/ PollBegin \/ PollStep

SpecEvents == Init /\ [][NextEvents]_vars

----------------------------------------------------------------------------
(* update_cars on seeded pools: a city built by CityBuilder::add_cars and  *)
(* add_intersections, its lights at one of the phases the generated lights *)
(* run through                                                             *)

RECURSIVE LightsAfter(_)
LightsAfter(k) ==
    IF k = 0 THEN generate_intersections
    ELSE update_traffic_lights(LightsAfter(k - 1), PhaseDt)

\* along-lane distances to the center of intersection 0 at which cars are
\* seeded (negative: past the center)
SeedDist == {-50, 20, 35, 40, 50, 80, 95}

\* a car in the lane of its direction (the lane spawn_car and
\* handle_car_turn put it in), d pixels before the center of intersection 0
LaneCar(direction, d) ==
    CASE direction = Down -> Car(IntX(0) - LANE_OFFSET, IntY(0) - d, Down, None)
      [] direction = Up -> Car(IntX(0) + LANE_OFFSET, IntY(0) + d, Up, None)
      [] direction = Right -> Car(IntX(0) - d, IntY(0) + LANE_OFFSET, Right, None)
      [] direction = Left -> Car(IntX(0) + d, IntY(0) - LANE_OFFSET, Left, None)

WithinAnyRadius(x, y) == \E id \in IntIds : WithinRadius(x, y, id)

\* the in_intersection flag a car carries into a tick is the membership its
\* previous update computed, at its position of one frame earlier
SeedFlags(direction, d) ==
    {WithinAnyRadius(LaneCar(direction, d + CAR_SPEED * dt).x,
                     LaneCar(direction, d + CAR_SPEED * dt).y) : dt \in CarDts}

SeedCars(directions) ==
    {[LaneCar(dir, d) EXCEPT !.in_intersection = f] :
        <<dir, d, f>> \in {t \in directions \X SeedDist \X BOOLEAN :
                              t[3] \in SeedFlags(t[1], t[2])}}

SameLane(a, b) ==
    /\ a.direction = b.direction
    /\ IF a.direction \in {Down, Up} THEN a.x = b.x ELSE a.y = b.y

\* pools the running simulation produces: cars of one lane are no closer
\* than the following check leaves them, and no intersection holds two cars
SeedPoolOk(pool) ==
    \A i, j \in DOMAIN pool : i # j =>
        /\ SameLane(pool[i], pool[j]) =>
              Abs(pool[i].x - pool[j].x) + Abs(pool[i].y - pool[j].y)
                 >= SAFE_FOLLOWING_DISTANCE - 2 * CAR_SPEED
        /\ \A id \in IntIds :
              ~(WithinRadius(pool[i].x, pool[i].y, id) /\ WithinRadius(pool[j].x, pool[j].y, id))

\* up to MaxPoolCars cars on any lane, or one more on the vertical road alone
SeedPools ==
    {p \in UNION {[1 .. n -> SeedCars(Direction)] : n \in 0 .. MaxPoolCars}
           \cup [1 .. MaxPoolCars + 1 -> SeedCars({Down, Up})] :
        SeedPoolOk(p)}

InitPool ==
    /\ \E k \in 0 .. MaxPhase :
          /\ lights = LightsAfter(k)
          /\ shadow = LightsAfter(k)
    /\ cars \in SeedPools
    /\ itl = [b \in BOOLEAN |-> ItlNew(b)]
    /\ time = 0
    /\ last_spawn_time = 0
    /\ spawned = 0
    /\ frames = 0
    /\ replay = NoReplay
    /\ modes = NoModes
    /\ channel = NewChannel
    /\ window = WindowStateNew
    /\ log_window = MainLogWindow
    /\ log = NoLog

\* City::update_cars(dt, all_lights_red) on its own
UpdateCars(dt, all_lights_red) ==
    /\ frames < MaxFrames
    /\ \E draws \in DrawsFor(cars) :
          /\ cars' = update_cars(cars, lights, dt, all_lights_red, draws)
          /\ log' = [snapshot |-> cars,
                     results |-> CarResults(cars, lights, dt, all_lights_red, draws),
                     dt |-> dt, all_lights_red |-> all_lights_red, draws |-> draws]
    /\ frames' = frames + 1
    /\ UNCHANGED <<lights, itl, time, last_spawn_time, spawned, shadow, replay, modes, channel, window, log_window>>

NextPool == \E dt \in CarDts, all_lights_red \in BOOLEAN : UpdateCars(dt, all_lights_red)

SpecPool == InitPool /\ [][NextPool]_vars

----------------------------------------------------------------------------
(* check_traffic_light_at_intersection on its own: one car placed around an *)
(* intersection, one light state, one call                                 *)

\* along-lane distances (negative: past the center) and lateral offsets of
\* the car to the intersection it is checked against
CheckDist == {-10, 0, 10, 20, 29, 30, 31, 50, 79, 80, 81}
CheckLateral == {-20, -19, -12, 0, 12, 19, 20}

\* a car heading in direction, d pixels before the center of intersection id
\* and l pixels to the side of it
PlacedCar(direction, id, d, l) ==
    CASE direction = Down -> Car(IntX(id) + l, IntY(id) - d, Down, None)
      [] direction = Up -> Car(IntX(id) + l, IntY(id) + d, Up, None)
      [] direction = Right -> Car(IntX(id) - d, IntY(id) + l, Right, None)
      [] direction = Left -> Car(IntX(id) + d, IntY(id) + l, Left, None)

InitCheck ==
    /\ \E direction \in Direction, id \in IntIds, d \in CheckDist,
          l \in CheckLateral, f \in BOOLEAN, light_state \in 0 .. 2 :
          /\ cars = <<[PlacedCar(direction, id, d, l) EXCEPT !.in_intersection = f]>>
          /\ log = [id |-> id, light_state |-> light_state,
                    checked |-> FALSE, result |-> FALSE]
    /\ lights = generate_intersections
    /\ shadow = generate_intersections
    /\ itl = [b \in BOOLEAN |-> ItlNew(b)]
    /\ time = 0
    /\ last_spawn_time = 0
    /\ spawned = 0
    /\ frames = 0
    /\ replay = NoReplay
    /\ modes = NoModes
    /\ channel = NewChannel
    /\ window = WindowStateNew
    /\ log_window = MainLogWindow

\* the call should_car_stop makes for one intersection
CheckTrafficLight ==
    /\ ~log.checked
    /\ log' = [log EXCEPT
                 !.checked = TRUE,
                 !.result = check_traffic_light_at_intersection(
                                cars[1], IntX(log.id), IntY(log.id), log.light_state)]
    /\ UNCHANGED <<lights, itl, cars, time, last_spawn_time, spawned, frames, shadow, replay, modes, channel, window, log_window>>

NextCheck == CheckTrafficLight

SpecCheck == InitCheck /\ [][NextCheck]_vars

----------------------------------------------------------------------------
(* City::update on seeded cities: cars about to leave the viewport, cars   *)
(* at an intersection center with a planned turn, cars in the stop zone of *)
(* a light that is about to change, and any dt the caller may pass         *)

\* City::update calls applied to a seeded city
MaxSteps == 1

\* dt values passed to City::update, zero and negative ones included
StepDts == {-1, 0, 1, 2}

\* the lights as generated and one tick before their first change
StepLights == {generate_intersections, update_traffic_lights(generate_intersections, 29)}

\* the side of the road center on which spawn_car and handle_car_turn put
\* a car of this direction
LaneSide(direction) ==
    CASE direction = Down -> -LANE_OFFSET
      [] direction = Up -> LANE_OFFSET
      [] direction = Right -> LANE_OFFSET
      [] direction = Left -> -LANE_OFFSET

Perpendicular(direction) ==
    IF direction \in {Down, Up} THEN {Right, Left} ELSE {Down, Up}

\* cars in lane one or two frames before the viewport margin, and one in
\* the middle of the screen
ExitCars ==
    {Car(IntX(0) + LaneSide(Down), y, Down, None) : y \in {300, 650, 655}}
    \cup {Car(IntX(0) + LaneSide(Up), y, Up, None) : y \in {-50, -55}}
    \cup {Car(x, IntY(0) + LaneSide(Right), Right, None) : x \in {870, 875}}
    \cup {Car(x, IntY(0) + LaneSide(Left), Left, None) : x \in {-70, -75}}

\* cars in lane inside intersection 0 or 5, at the center (5 px) or short
\* of it (12 px), with or without a planned turn, fresh from a turn or not
TurnCars ==
    {[PlacedCar(dir, id, d, LaneSide(dir)) EXCEPT
         !.next_turn = t, !.just_turned = j, !.in_intersection = TRUE] :
        <<dir, id, d, t, j>> \in
            {q \in Direction \X {0, 5} \X {5, 12} \X Direction \X BOOLEAN :
                q[4] \in Perpendicular(q[1])}}
    \cup {[PlacedCar(dir, 0, 5, LaneSide(dir)) EXCEPT !.in_intersection = TRUE] :
            dir \in Direction}

\* cars in lane in the stop zone of intersection 0
ZoneCars == {PlacedCar(dir, 0, 50, LaneSide(dir)) : dir \in Direction}

\* the cars of TurnCars that are about to turn at intersection 0
TurningCars ==
    {c \in TurnCars : /\ c.next_turn # None /\ ~c.just_turned
                      /\ Abs(c.x - IntX(0)) + Abs(c.y - IntY(0)) = 5 + LANE_OFFSET}

\* cars in lane 45 px past the center of intersection 0, outside its
\* capture radius: 45 px ahead of a car that turns into their lane
BlockCars == {PlacedCar(dir, 0, -45, LaneSide(dir)) : dir \in Direction}

\* seeded cities: pool and clock.  With the clock at 1.5 s the next call
\* spawns.
StepSeeds ==
    (({<<c>> : c \in ExitCars \cup TurnCars \cup ZoneCars}
        \cup {p \in (ExitCars \cup ZoneCars) \X (ExitCars \cup ZoneCars) :
                p[1] # p[2] /\ SeedPoolOk(p)}
        \cup {p \in (TurningCars \X BlockCars) \cup (BlockCars \X TurningCars) :
                SeedPoolOk(p)})
       \X {0})
    \cup (({<<>>} \cup {<<c>> : c \in ZoneCars}
             \cup {<<c>> \in {<<t>> : t \in TurningCars} : c.direction \in {Down, Left}})
          \X {CAR_SPAWN_INTERVAL})

InitStep ==
    /\ \E ls \in StepLights : lights = ls /\ shadow = ls
    /\ \E seed \in StepSeeds : cars = seed[1] /\ time = seed[2]
    /\ itl = [b \in BOOLEAN |-> ItlNew(b)]
    /\ last_spawn_time = 0
    /\ spawned = 0
    /\ frames = 0
    /\ replay = NoReplay
    /\ modes = NoModes
    /\ channel = NewChannel
    /\ window = WindowStateNew
    /\ log_window = MainLogWindow
    /\ log = NoLog

\* City::update(dt, all_lights_red); the clock read by the spawner has moved
\* on by 0.1 s since the previous call, whatever dt the caller passes
Step(dt, all_lights_red) ==
    LET now == time + 1
        due == SpawnDue(now, last_spawn_time)
    IN /\ frames < MaxSteps
       /\ \E ch \in (IF due THEN SpawnChoices ELSE {CHOOSE c \in SpawnChoices : TRUE}) :
            LET c2 == CityBeforeCars(TheCity, now, dt, all_lights_red, ch) IN
            \E draws \in DrawsFor(c2.cars) :
                LET c3 == CityUpdate(TheCity, now, dt, all_lights_red, ch, draws) IN
                /\ cars' = c3.cars
                /\ lights' = c3.lights
                /\ last_spawn_time' = c3.last_spawn_time
                /\ shadow' = CityBeforeCars([TheCity EXCEPT !.lights = shadow],
                                            now, dt, FALSE, ch).lights
                /\ log' = [snapshot |-> c2.cars,
                           results |-> CarResults(c2.cars, c2.lights, dt,
                                                  all_lights_red, draws),
                           dt |-> dt, all_lights_red |-> all_lights_red,
                           draws |-> draws, cars_before |-> cars,
                           lights_before |-> lights]
                /\ time' = now
                /\ spawned' = IF due THEN spawned + 1 ELSE spawned
                /\ frames' = frames + 1
                /\ UNCHANGED <<itl, replay, modes, channel, window, log_window>>

NextStep == \E dt \in StepDts, all_lights_red \in BOOLEAN : Step(dt, all_lights_red)

SpecStep == InitStep /\ [][NextStep]_vars

----------------------------------------------------------------------------
(* The main loop with a window that is resized: check_resize, clear_cars,  *)
(* City::update.  The blocks cleared and rebuilt on a resize are not part   *)
(* of the state.  Screen sizes stay within 2 px of the default window, and  *)
(* City::update computes with the default layout.                           *)

\* main loop iterations made
MaxResizeFrames == 2

\* values of screen_width() and screen_height()
ScreenWidths == {ScreenW, ScreenW + 1, ScreenW + 2}
ScreenHeights == {ScreenH, ScreenH - 2}

\* a city with one car in the stop zone of intersection 0, the clock at 0 or
\* at 1.5 s (the next call spawns)
InitResize ==
    /\ lights = generate_intersections
    /\ shadow = generate_intersections
    /\ \E c \in ZoneCars : cars = <<c>>
    /\ time \in {0, CAR_SPAWN_INTERVAL}
    /\ itl = [b \in BOOLEAN |-> ItlNew(b)]
    /\ last_spawn_time = 0
    /\ spawned = 0
    /\ frames = 0
    /\ replay = NoReplay
    /\ modes = NoModes
    /\ channel = NewChannel
    /\ window = WindowStateNew
    /\ log_window = MainLogWindow
    /\ log = NoLog @@ [resized |-> FALSE, screen |-> <<ScreenW, ScreenH>>,
                       prev_resized |-> FALSE, prev_screen |-> <<ScreenW, ScreenH>>,
                       pool_before |-> <<>>, cars_before |-> <<>>,
                       lights_before |-> generate_intersections,
                       window_before |-> WindowStateNew]

\* one iteration of the main loop with the screen at w x h:
\* window_state.check_resize(RESIZE_THRESHOLD), city.clear_cars() if it
\* reports a resize, then city.update(dt, all_lights_red)
ResizeFrame(w, h, dt) ==
    LET checked == check_resize(window, w, h, RESIZE_THRESHOLD)
        city == [TheCity EXCEPT !.cars = IF checked.resized THEN <<>> ELSE cars]
        now == time + dt
        due == SpawnDue(now, last_spawn_time)
    IN /\ frames < MaxResizeFrames
       /\ \E ch \in (IF due THEN SpawnChoices ELSE {CHOOSE c \in SpawnChoices : TRUE}) :
            LET c2 == CityBeforeCars(city, now, dt, modes.all_lights_red, ch) IN
            \E draws \in DrawsFor(c2.cars) :
                LET c3 == CityUpdate(city, now, dt, modes.all_lights_red, ch, draws) IN
                /\ window' = checked.window
                /\ cars' = c3.cars
                /\ lights' = c3.lights
                /\ last_spawn_time' = c3.last_spawn_time
                /\ shadow' = c3.lights
                /\ log' = [snapshot |-> c2.cars,
                           results |-> CarResults(c2.cars, c2.lights, dt,
                                                  modes.all_lights_red, draws),
                           dt |-> dt, all_lights_red |-> modes.all_lights_red,
                           draws |-> draws,
                           resized |-> checked.resized, screen |-> <<w, h>>,
                           prev_resized |-> log.resized, prev_screen |-> log.screen,
                           pool_before |-> cars, cars_before |-> city.cars,
                           lights_before |-> lights, window_before |-> window]
                /\ time' = now
                /\ spawned' = IF due THEN spawned + 1 ELSE spawned
                /\ frames' = frames + 1
                /\ UNCHANGED <<itl, replay, modes, channel, log_window>>

NextResize == \E w \in ScreenWidths, h \in ScreenHeights, dt \in FrameDts : ResizeFrame(w, h, dt)

SpecResize == InitResize /\ [][NextResize]_vars

----------------------------------------------------------------------------
(* One car driven through the grid: City::update_traffic_lights(dt) and    *)
(* City::update_cars(dt, false), frame after frame, from a city holding a  *)
(* car at an intersection                                                  *)

\* frames a seeded car is driven for
MaxDriveFrames == 40

\* frame times of the drive
DriveDts == {2}

\* the car's history kept beside the log of the last call: turns counts the
\* turns it executed, away says whether, since the last of them, an update
\* began with the car outside every capture radius, away_before is away as
\* it was when the last call began
InitDrive ==
    /\ lights = generate_intersections
    /\ shadow = generate_intersections
    /\ \E c \in TurnCars :
          /\ cars = <<c>>
          /\ log = NoLog @@ [turns |-> 0, away |-> ~c.just_turned,
                             away_before |-> ~c.just_turned]
    /\ itl = [b \in BOOLEAN |-> ItlNew(b)]
    /\ time = 0
    /\ last_spawn_time = 0
    /\ spawned = 0
    /\ frames = 0
    /\ replay = NoReplay
    /\ modes = NoModes
    /\ channel = NewChannel
    /\ window = WindowStateNew
    /\ log_window = MainLogWindow

Drive(dt) ==
    /\ frames < MaxDriveFrames
    /\ cars # <<>>
    /\ LET ls == update_traffic_lights(lights, dt) IN
       \E draws \in DrawsFor(cars) :
          LET results == CarResults(cars, ls, dt, FALSE, draws) IN
          /\ cars' = update_cars(cars, ls, dt, FALSE, draws)
          /\ lights' = ls
          /\ log' = [snapshot |-> cars, results |-> results, dt |-> dt,
                     all_lights_red |-> FALSE, draws |-> draws,
                     turns |-> log.turns + (IF results[1].turned THEN 1 ELSE 0),
                     away |-> IF results[1].turned THEN FALSE
                              ELSE log.away \/ ~WithinAnyRadius(cars[1].x, cars[1].y),
                     away_before |-> log.away]
    /\ shadow' = update_traffic_lights(shadow, dt)
    /\ time' = time + dt
    /\ frames' = frames + 1
    /\ UNCHANGED <<itl, last_spawn_time, spawned, replay, modes, channel, window, log_window>>

NextDrive == \E dt \in DriveDts : Drive(dt)

SpecDrive == InitDrive /\ [][NextDrive]_vars

----------------------------------------------------------------------------
(* Seeded pools driven in normal operation until the screen is empty: the  *)
(* main loop calls City::update in every frame, here with the spawner idle *)

\* turns plan_next_turn may plan during a run (the turns the seeded cars
\* carry are not counted)
MaxRunTurns == 1

\* frame times of the run
RunDts == {2}

\* cars in lane before intersection 0: at 45 px (in the stop zone, inside the
\* approach window, outside the capture radius), with or without a planned
\* turn, and at 95 px, one following distance behind
RunCars ==
    {LaneCar(dir, d) : dir \in Direction, d \in {45, 95}}
    \cup {[LaneCar(dir, 45) EXCEPT !.next_turn = t] :
            <<dir, t>> \in {q \in {Down, Right} \X Direction : q[2] \in Perpendicular(q[1])}}

\* pools of one or two cars in either order, and of three
RunPools ==
    {p \in {<<c>> : c \in RunCars} \cup (RunCars \X RunCars) : SeedPoolOk(p)}
    \cup {p \in RunCars \X RunCars \X RunCars :
            /\ SeedPoolOk(p)
            /\ p[1].direction = Down /\ p[2].direction \in {Right, Up}
            /\ p[3].direction \in {Left, Up} /\ p[2] # p[3]}

\* the lights as generated (vertical Green) or 4 s later (horizontal Green)
InitRun ==
    /\ \E ls \in {generate_intersections, LightsAfter(2)} : lights = ls /\ shadow = ls
    /\ \E p \in RunPools :
          /\ cars = p
          /\ log = NoLog @@ [held |-> [k \in DOMAIN p |-> 0]]
    /\ itl = [b \in BOOLEAN |-> ItlNew(b)]
    /\ time = 0
    /\ last_spawn_time = 0
    /\ spawned = 0
    /\ frames = 0
    /\ replay = NoReplay
    /\ modes = NoModes
    /\ channel = NewChannel
    /\ window = WindowStateNew
    /\ log_window = MainLogWindow

\* the time each car kept by update_cars has now been held: dt more for a car
\* held in this call, none for a car that moved
RECURSIVE HeldAfter(_, _, _, _)
HeldAfter(results, held, dt, k) ==
    IF k > Len(results) THEN <<>>
    ELSE (IF results[k].kept
          THEN <<IF results[k].reason # "none" THEN held[k] + dt ELSE 0>>
          ELSE <<>>) \o HeldAfter(results, held, dt, k + 1)

\* City::update_traffic_lights(dt) and City::update_cars(dt, false) on a pool
\* that still holds a car; frames counts the turns planned by the draws,
\* log.held says for each car of the pool for how long it has been held
\* without a move
Run(dt) ==
    /\ cars # <<>>
    /\ LET ls == update_traffic_lights(lights, dt) IN
       \E draws \in DrawsFor(cars) :
          LET planned == Cardinality({k \in DOMAIN cars :
                                         WouldTurn(cars[k]) /\ draws[k] # "straight"})
          IN /\ frames + planned <= MaxRunTurns
             /\ frames' = frames + planned
             /\ cars' = update_cars(cars, ls, dt, FALSE, draws)
             /\ lights' = ls
             /\ LET results == CarResults(cars, ls, dt, FALSE, draws) IN
                log' = [snapshot |-> cars, results |-> results,
                        dt |-> dt, all_lights_red |-> FALSE, draws |-> draws,
                        held |-> HeldAfter(results, log.held, dt, 1)]
    /\ shadow' = update_traffic_lights(shadow, dt)
    /\ UNCHANGED <<itl, time, last_spawn_time, spawned, replay, modes, channel,
                   window, log_window>>

NextRun == \E dt \in RunDts : Run(dt)

SpecRun == InitRun /\ [][NextRun]_vars

----------------------------------------------------------------------------
(* Lights built with TrafficLight::builder and a custom initial state,     *)
(* then updated frame after frame.  log.built keeps the initial state each  *)
(* of the two lights of an intersection was built with.                     *)

\* the custom durations: 0.5 s, 2.0 s and the 5.0 s of the builder's example
CustomDurations == {5, 20, 50}

\* the builder calls that set a custom initial state
CustomBuilders ==
    {start_green_with(TrafficLightBuilderNew, d) : d \in CustomDurations}
    \cup {start_red_with(TrafficLightBuilderNew, d) : d \in CustomDurations}
    \cup {start_yellow_with(TrafficLightBuilderNew, d) : d \in CustomDurations}
    \cup {builder_initial_state(TrafficLightBuilderNew, LightState(Green, d)) :
             d \in CustomDurations}

InitBuilt ==
    /\ \E bv \in CustomBuilders, bh \in CustomBuilders :
          /\ lights = [id \in IntIds |->
                         << build(builder_controls_vertical(bv, TRUE)),
                            build(builder_controls_vertical(bh, FALSE)) >>]
          /\ log = NoLog @@ [built |-> <<bv.initial_state[1], bh.initial_state[1]>>]
    /\ shadow = generate_intersections
    /\ itl = [b \in BOOLEAN |-> ItlNew(b)]
    /\ cars = <<>>
    /\ time = 0
    /\ last_spawn_time = 0
    /\ spawned = 0
    /\ frames = 0
    /\ replay = NoReplay
    /\ modes = NoModes
    /\ channel = NewChannel
    /\ window = WindowStateNew
    /\ log_window = MainLogWindow

\* Intersection::update_lights(dt) on every intersection
BuiltUpdate(dt) ==
    /\ lights' = update_traffic_lights(lights, dt)
    /\ UNCHANGED <<itl, cars, time, last_spawn_time, spawned, frames, log, shadow,
                   replay, modes, channel, window, log_window>>

NextBuilt == \E dt \in LightDts : BuiltUpdate(dt)

SpecBuilt == InitBuilt /\ [][NextBuilt]_vars

----------------------------------------------------------------------------
(* A LogWindow on its own: LogWindow::new(max_entries), then log and       *)
(* toggle_visibility calls in any order.  frames counts the log calls and  *)
(* names the entries; log keeps the window before the last call.           *)

MaxLogCalls == 8

\* the capacities a window is created with
LogCapacities == {0, 1, 2, 3}

InitLog ==
    /\ \E max_entries \in LogCapacities : log_window = LogWindowNew(max_entries)
    /\ log = NoLog @@ [op |-> "new", lw_before |-> LogWindowNew(0)]
    /\ lights = generate_intersections
    /\ shadow = generate_intersections
    /\ itl = [b \in BOOLEAN |-> ItlNew(b)]
    /\ cars = <<>>
    /\ time = 0
    /\ last_spawn_time = 0
    /\ spawned = 0
    /\ frames = 0
    /\ replay = NoReplay
    /\ modes = NoModes
    /\ channel = NewChannel
    /\ window = WindowStateNew

\* log_window.log(message)
LogCall ==
    /\ frames < MaxLogCalls
    /\ log_window' = LogWindowLog(log_window, frames + 1)
    /\ frames' = frames + 1
    /\ log' = NoLog @@ [op |-> "log", lw_before |-> log_window]
    /\ UNCHANGED <<lights, itl, cars, time, last_spawn_time, spawned, shadow, replay,
                   modes, channel, window>>

\* log_window.toggle_visibility()
ToggleVisibility ==
    /\ log_window' = toggle_visibility(log_window)
    /\ log' = NoLog @@ [op |-> "toggle", lw_before |-> log_window]
    /\ UNCHANGED <<lights, itl, cars, time, last_spawn_time, spawned, frames, shadow,
                   replay, modes, channel, window>>

NextLog == LogCall \/ ToggleVisibility

SpecLog == InitLog /\ [][NextLog]_vars

----------------------------------------------------------------------------
(* Properties of the light controllers                                     *)

\* C1: at every tick and for every intersection built by
\* generate_intersections and advanced by update_lights(dt), dt > 0, at most
\* one of the states reported for a vertical direction and for a horizontal
\* direction is non-Red.
C1_AtMostOneAxisNonRed ==
    \A id \in IntIds : \A v \in {Down, Up}, h \in {Left, Right} :
        \/ get_light_state_for_direction(lights[id], v) = 0
        \/ get_light_state_for_direction(lights[id], h) = 0

\* C2: for an IntersectionTrafficLight built by new() with either value of
\* vertical_starts_green, initially and after any sequence of update(dt),
\* dt >= 0, exactly one of vertical_state and horizontal_state is Green or
\* Yellow and the other one is Red.
C2_ExactlyOneAxisActive ==
    \A b \in BOOLEAN :
        LET v == itl[b].vertical_state.state
            h == itl[b].horizontal_state.state
        IN \/ v \in {Green, Yellow} /\ h = Red
           \/ h \in {Green, Yellow} /\ v = Red

\* the controller that started vertical has handed over to the horizontal
\* axis, which is now Yellow, while the other controller is back on Green
C2_Witness ==
    /\ itl[TRUE].horizontal_state.state = Yellow
    /\ itl[TRUE].vertical_state.state = Red
    /\ itl[FALSE].horizontal_state.state = Red
    /\ itl[FALSE].vertical_state.state = Yellow

----------------------------------------------------------------------------
(* Properties of update_cars, read off the record of the last call         *)

\* lateral offset of car to the road through intersection id along which it drives
Lateral(car, id) ==
    IF car.direction = Down \/ car.direction = Up
    THEN Abs(car.x - IntX(id))
    ELSE Abs(car.y - IntY(id))

\* along-lane distance of car to the center of intersection id, positive
\* while the center lies ahead
Ahead(car, id) ==
    CASE car.direction = Down -> IntY(id) - car.y
      [] car.direction = Up -> car.y - IntY(id)
      [] car.direction = Right -> IntX(id) - car.x
      [] car.direction = Left -> car.x - IntX(id)

\* the car of result r is where it was at the start of its update
Stayed(r) == r.after.x = r.before.x /\ r.after.y = r.before.y

\* the state the light of intersection id reports for the car's direction
ActualLight(car, id) == get_light_state_for_direction(lights[id], car.direction)

Results == {log.results[k] : k \in DOMAIN log.results}

\* C3: a car whose in_intersection flag is true after the membership update
\* of a tick is not made to stop in that tick by the traffic-light check or
\* by the occupancy check, whatever the lights and the override are.
C3_InIntersectionNeverHeld ==
    \A r \in Results : r.in_intersection => r.reason \notin {"light", "occupied"}

\* a flagged car between 30 and 80 px before a center under the override,
\* which moved on
C3_Witness ==
    \E r \in Results : \E id \in IntIds :
        /\ r.in_intersection
        /\ log.all_lights_red
        /\ Lateral(r.updated, id) < 20
        /\ Ahead(r.updated, id) > 30 /\ Ahead(r.updated, id) < 80
        /\ r.reason = "none"
        /\ ~Stayed(r)

\* C4 as claimed: a car in the lane of an intersection ahead (lateral offset
\* below 20 px), at a distance within [30, 80] px of its center at the start
\* of its update, whose light is Red or Yellow, does not move in that tick.
C4_StopsWithinClosedZone ==
    \A r \in Results : \A id \in IntIds :
        (/\ Lateral(r.before, id) < 20
         /\ Ahead(r.before, id) >= 30 /\ Ahead(r.before, id) <= 80
         /\ ActualLight(r.before, id) \in {0, 1})
        => Stayed(r)

\* C4 amended: a car in the lane of an intersection ahead, at a distance
\* strictly between 30 and 80 px of its center at the start of its update,
\* whose in_intersection flag is false after the membership update of the
\* tick and whose light is Red or Yellow, does not move in that tick.
C4_StopsInsideOpenZone ==
    \A r \in Results : \A id \in IntIds :
        (/\ Lateral(r.before, id) < 20
         /\ Ahead(r.before, id) > 30 /\ Ahead(r.before, id) < 80
         /\ ~r.in_intersection
         /\ ActualLight(r.before, id) \in {0, 1})
        => Stayed(r)

\* a car held 50 px before a Yellow light, the override off
C4_Witness ==
    \E r \in Results : \E id \in IntIds :
        /\ Lateral(r.before, id) < 20
        /\ Ahead(r.before, id) = 50
        /\ ~r.in_intersection
        /\ ActualLight(r.before, id) = 1
        /\ ~log.all_lights_red
        /\ r.reason = "light"
        /\ Stayed(r)

\* C5: the light check never stops a car whose distance to the intersection
\* ahead is below 30 px, whatever the light state; with the light Red it
\* stops a car at distance 50 (in lane, not in_intersection) and does not
\* stop a car at distance 20.
C5_CommittedBelowStopMin ==
    log.checked =>
        LET car == cars[1]
            d == Ahead(car, log.id)
        IN /\ (d > 0 /\ d < 30) => ~log.result
           /\ (d = 50 /\ Lateral(car, log.id) < 20 /\ ~car.in_intersection
                 /\ log.light_state = 0) => log.result
           /\ (d = 20 /\ log.light_state = 0) => ~log.result

\* a car in lane 20 px before the center, not flagged, the light Red: only
\* the distance keeps the check from stopping it
C5_Witness ==
    /\ log.checked
    /\ Ahead(cars[1], log.id) = 20
    /\ Lateral(cars[1], log.id) = 12
    /\ ~cars[1].in_intersection
    /\ log.light_state = 0
    /\ ~log.result

\* the lights with every state replaced by Red
AllRed == [id \in DOMAIN lights |->
              [k \in DOMAIN lights[id] |->
                  [lights[id][k] EXCEPT !.state = default_red]]]

\* C6: when all_lights_red is true every traffic-light decision of the tick
\* is the one Red lights give, whatever the lights' own states: a car in
\* the stop zone of an intersection (in lane, strictly between 30 and 80 px
\* before the center, not in_intersection, where the light check holds cars
\* on Red) whose actual light is Green does not move.
C6_OverrideActsAsRed ==
    log.all_lights_red =>
        \A r \in Results :
            /\ r.reason = StopReason(r.updated, AllRed, log.snapshot, FALSE)
            /\ \A id \in IntIds :
                  (/\ Lateral(r.before, id) < 20
                   /\ Ahead(r.before, id) > 30 /\ Ahead(r.before, id) < 80
                   /\ ~r.in_intersection
                   /\ ActualLight(r.before, id) = 2)
                  => Stayed(r)

\* a car held by the override in the stop zone of a Green light
C6_Witness ==
    /\ log.all_lights_red
    /\ \E r \in Results : \E id \in IntIds :
          /\ Lateral(r.before, id) < 20
          /\ Ahead(r.before, id) > 30 /\ Ahead(r.before, id) < 80
          /\ ~r.in_intersection
          /\ ActualLight(r.before, id) = 2
          /\ r.reason = "light"
          /\ Stayed(r)

\* C7: the emergency-stop flag has no effect on the light controllers: after
\* the same sequence of dt values the state and the remaining time of every
\* light of the city are those of the twin city, whose updates all ran with
\* the flag off.
C7_OverrideLeavesLightsAlone == lights = shadow

\* a frame under the override in which a light of intersection 0 has left
\* its initial state
C7_Witness ==
    /\ log.all_lights_red
    /\ log.dt > 0
    /\ lights[0][1].state.state = Yellow
    /\ lights[0][2].state.state = Green
    /\ lights = shadow

\* the cars of the snapshot other than the k-th that are within the capture
\* radius of intersection id
OthersInside(k, id) ==
    {j \in DOMAIN log.snapshot \ {k} :
        WithinRadius(log.snapshot[j].x, log.snapshot[j].y, id)}

\* C8: a car that is not in_intersection and is approaching an intersection
\* (in lane within 20 px, the center ahead by less than 50 px) does not move
\* in a tick whose start-of-tick snapshot holds another car within 40 px of
\* that intersection's center, also when the car's light is Green.
C8_HeldBeforeOccupiedIntersection ==
    \A k \in DOMAIN log.results : \A id \in IntIds :
        LET r == log.results[k] IN
        (/\ ~r.in_intersection
         /\ Lateral(r.updated, id) < 20
         /\ Ahead(r.updated, id) > 0 /\ Ahead(r.updated, id) < 50
         /\ OthersInside(k, id) # {})
        => Stayed(r)

\* a car held by the occupancy check alone: its light is Green and the
\* override is off
C8_Witness ==
    \E k \in DOMAIN log.results : \E id \in IntIds :
        LET r == log.results[k] IN
        /\ ~r.in_intersection
        /\ Lateral(r.updated, id) < 20
        /\ Ahead(r.updated, id) > 0 /\ Ahead(r.updated, id) < 50
        /\ OthersInside(k, id) # {}
        /\ ~log.all_lights_red
        /\ ActualLight(r.updated, id) = 2
        /\ r.reason = "occupied"
        /\ Stayed(r)

\* C9: in every reachable state no two distinct cars of the pool are within
\* the capture radius (40 px) of the same intersection.
C9_OneCarPerIntersection ==
    \A id \in IntIds : \A i, j \in DOMAIN cars :
        (i # j) => ~(/\ WithinRadius(cars[i].x, cars[i].y, id)
                     /\ WithinRadius(cars[j].x, cars[j].y, id))

\* C10: a car that is not in_intersection does not move in a tick whose
\* start-of-tick snapshot holds another car, not flagged in_intersection,
\* with the same direction, in the same lane (lateral offset below 10 px)
\* and ahead of it by more than 0 and less than 50 px, whatever other cars
\* the pool holds and in whatever order.
C10_KeepsFollowingDistance ==
    \A k \in DOMAIN log.results :
        LET r == log.results[k] IN
        (/\ ~r.in_intersection
         /\ \E j \in DOMAIN log.snapshot \ {k} :
               LET other == log.snapshot[j] IN
               /\ ~other.in_intersection
               /\ other.direction = r.updated.direction
               /\ (IF r.updated.direction \in {Down, Up}
                   THEN Abs(other.x - r.updated.x) < 10
                   ELSE Abs(other.y - r.updated.y) < 10)
               /\ LET gap == CASE r.updated.direction = Down -> other.y - r.updated.y
                               [] r.updated.direction = Up -> r.updated.y - other.y
                               [] r.updated.direction = Right -> other.x - r.updated.x
                               [] r.updated.direction = Left -> r.updated.x - other.x
                  IN gap > 0 /\ gap < 50)
        => Stayed(r)

----------------------------------------------------------------------------
(* Properties of update_cars as a whole                                    *)

\* the pool and the draws of the last update_cars call, reordered by p
Permuted(seq, p) == [i \in DOMAIN seq |-> seq[p[i]]]

\* C11: the stop decisions of a tick do not depend on iteration order:
\* applying update_cars to any permutation of the pool (same lights, same
\* dt, same override, each car keeping its random draw) gives every car the
\* same moved/stopped outcome and the same resulting state as the call on
\* the pool in its original order.
C11_OrderIndependent ==
    \A p \in Permutations(DOMAIN log.snapshot) :
        LET permuted == CarResults(Permuted(log.snapshot, p), lights, log.dt,
                                   log.all_lights_red, Permuted(log.draws, p))
        IN \A i \in DOMAIN log.snapshot :
              /\ permuted[i].reason = log.results[p[i]].reason
              /\ permuted[i].after = log.results[p[i]].after

\* the car's x_percent and y_percent lie strictly between -0.1 and 1.1
InsideMargin(car) ==
    /\ -ScreenW < 10 * car.x /\ 10 * car.x < 11 * ScreenW
    /\ -ScreenH < 10 * car.y /\ 10 * car.y < 11 * ScreenH

\* the cars of the last call as they are after their move, in pool order
Afters == [k \in DOMAIN log.results |-> log.results[k].after]

\* C12: after every update_cars call the pool is exactly the cars of the
\* call whose position after their move lies strictly inside the viewport
\* margin, in their order: a car outside is removed in that same call, every
\* car left has both coordinates strictly inside (-0.1, 1.1), and no car is
\* removed for another reason.
C12_RemovedIffOutsideMargin ==
    frames > 0 =>
        /\ \A i \in DOMAIN cars : InsideMargin(cars[i])
        /\ cars = SelectSeq(Afters, InsideMargin)

\* a call that removed a car which moved onto or past the margin and kept a
\* car which stayed inside
C12_Witness ==
    /\ frames > 0
    /\ \E k \in DOMAIN Afters : ~InsideMargin(Afters[k]) /\ InsideMargin(log.snapshot[k])
    /\ Len(cars) = 1
    /\ Len(log.snapshot) = 2

----------------------------------------------------------------------------
(* Properties of turning                                                   *)

\* the intersection (if any) whose center region holds the car
CenterOf(car) ==
    {id \in IntIds : Abs(car.x - IntX(id)) < 15 /\ Abs(car.y - IntY(id)) < 15}

\* the offset from the center line of its road at which spawn_car puts a
\* car of this direction
SpawnLaneOffsets(direction) ==
    {IF direction \in {Down, Up}
     THEN spawn_car(ch).x - (VERTICAL_ROAD_POSITIONS[ch.road_index + 1] * ScreenW) \div 100
     ELSE spawn_car(ch).y - (HORIZONTAL_ROAD_POSITIONS[ch.road_index + 1] * ScreenH) \div 100 :
        ch \in {c \in SpawnChoices : spawn_car(c).direction = direction}}

\* C13: when a turn executes at an intersection, the car's direction becomes
\* the planned direction, its along-axis coordinate is the intersection
\* center, and its off-axis coordinate is the center minus LANE_OFFSET for
\* Down and plus LANE_OFFSET for Up (x axis), plus LANE_OFFSET for Right and
\* minus LANE_OFFSET for Left (y axis); that offset is the one the spawner
\* gives to a car of the new direction.
C13_TurnEntersLaneOfNewDirection ==
    \A k \in DOMAIN log.results :
        LET r == log.results[k]
            car == r.updated
        IN r.turned =>
           /\ car.direction = r.before.next_turn
           /\ \E id \in CenterOf(r.before) :
                 /\ CASE car.direction = Down ->
                           car.y = IntY(id) /\ car.x = IntX(id) - LANE_OFFSET
                      [] car.direction = Up ->
                           car.y = IntY(id) /\ car.x = IntX(id) + LANE_OFFSET
                      [] car.direction = Right ->
                           car.x = IntX(id) /\ car.y = IntY(id) + LANE_OFFSET
                      [] car.direction = Left ->
                           car.x = IntX(id) /\ car.y = IntY(id) - LANE_OFFSET
                 /\ SpawnLaneOffsets(car.direction) =
                       {IF car.direction \in {Down, Up}
                        THEN car.x - IntX(id) ELSE car.y - IntY(id)}

\* a car heading Up turned Left at intersection 5
C13_Witness ==
    \E k \in DOMAIN log.results :
        /\ log.results[k].turned
        /\ log.results[k].before.direction = Up
        /\ log.results[k].updated.direction = Left
        /\ 5 \in CenterOf(log.results[k].before)

----------------------------------------------------------------------------
(* Properties of the IntersectionTrafficLight pair                         *)

AxisState(c, axis) ==
    IF axis = Vertical THEN c.vertical_state.state ELSE c.horizontal_state.state

\* C14: the controller built with vertical_starts_green = true and the one
\* built with false, advanced by the same dt values, are complementary at
\* every tick from t = 0 on (up to MaxItlTime, 24 simulated seconds): for
\* each axis, one controller shows Green or Yellow exactly when the other
\* shows Red.
C14_PairComplementary ==
    \A axis \in {Vertical, Horizontal} :
        /\ AxisState(itl[TRUE], axis) \in {Green, Yellow}
              <=> AxisState(itl[FALSE], axis) = Red
        /\ AxisState(itl[FALSE], axis) \in {Green, Yellow}
              <=> AxisState(itl[TRUE], axis) = Red

\* more than 21 simulated seconds have passed and the pair has gone through
\* handovers: the first controller is back on its vertical axis
C14_Witness ==
    /\ time > 210
    /\ itl[TRUE].active_direction = Vertical
    /\ itl[TRUE].vertical_state.state = Yellow
    /\ itl[FALSE].horizontal_state.state = Yellow

OtherAxis(axis) == IF axis = Vertical THEN Horizontal ELSE Vertical

\* what C15 says of one update of one controller, c before and c2 after
HandoverRule(c, c2) ==
    LET active == c.active_direction
        becomes_red == AxisState(c, active) # Red /\ AxisState(c2, active) = Red
    IN /\ (c2.active_direction # active) <=> becomes_red
       /\ becomes_red => AxisState(c2, OtherAxis(active)) = Green
       /\ AxisState(c2, c2.active_direction) \in {Green, Yellow}
       /\ AxisState(c2, OtherAxis(c2.active_direction)) = Red
       /\ ~becomes_red => AxisState(c2, OtherAxis(active)) = AxisState(c, OtherAxis(active))

\* C15: IntersectionTrafficLight::update changes the active direction
\* exactly in the updates in which the active axis's state becomes Red, and
\* in that same update the other axis becomes Green; after every update the
\* active direction is the axis that is Green or Yellow, the other axis is
\* Red, and an update without handover leaves the inactive axis as it was.
C15_HandoverExactlyAtRed ==
    [][\A b \in BOOLEAN : HandoverRule(itl[b], itl'[b])]_vars

\* the first controller has handed over to its horizontal axis, which has
\* since gone on to Yellow
C15_Witness ==
    /\ itl[TRUE].active_direction = Horizontal
    /\ itl[TRUE].horizontal_state.state = Yellow
    /\ itl[TRUE].vertical_state.state = Red
    /\ time >= GREEN_DURATION + YELLOW_DURATION + GREEN_DURATION

----------------------------------------------------------------------------
(* Properties of City::update as a whole                                   *)

\* C16: replaying an identical sequence of City::update(dt, all_lights_red)
\* calls from the same initial state with the same seeded random choices
\* yields identical car pools (same cars, positions, directions and planned
\* turns) after every call.
C16_ReplayIdentical == replay.cars = cars

\* C17: a City::update with dt zero or negative produces no advancement:
\* after it every light's state and remaining time and every car's position
\* equal their values before the call.
C17_NoAdvanceOnNonPositiveDt ==
    (frames > 0 /\ log.dt <= 0) =>
        /\ lights = log.lights_before
        /\ \A k \in DOMAIN log.results :
              /\ log.results[k].after.x = log.results[k].before.x
              /\ log.results[k].after.y = log.results[k].before.y

----------------------------------------------------------------------------
(* Properties of the light query                                           *)

\* the positions in the light list of the lights of the axis of direction
MatchingLights(ls, direction) ==
    {k \in DOMAIN ls : ls[k].controls_vertical <=> direction \in {Down, Up}}

StateCode(light) ==
    CASE light.state.state = Red -> 0
      [] light.state.state = Yellow -> 1
      [] light.state.state = Green -> 2

\* C18: get_light_state_for_direction returns Red (0), never Yellow or
\* Green, for a direction for which the intersection holds no light of the
\* matching axis (after clear_lights, before any add_light); when it holds
\* one it returns the state of the vertical light for Down/Up and of the
\* horizontal light for Left/Right (the first of them in the list).
C18_RedWithoutMatchingLight ==
    log.queried =>
        LET matching == MatchingLights(log.lights, log.direction) IN
        IF matching = {} THEN log.result = 0
        ELSE \E k \in matching :
                /\ \A j \in matching : k <= j
                /\ log.result = StateCode(log.lights[k])

\* a query for a horizontal direction on an intersection holding only a
\* vertical light that is not Red
C18_Witness ==
    /\ log.queried
    /\ log.direction = Left
    /\ Len(log.lights) = 1
    /\ log.lights[1].controls_vertical
    /\ log.lights[1].state.state = Green
    /\ log.result = 0

----------------------------------------------------------------------------
(* Properties of the spawner                                               *)

\* C19: a try_spawn call adds at most one car, at the end of the pool, and
\* only when more than spawn_interval has elapsed on the clock since the
\* previous spawn (since time 0 for the first); last_spawn_time is the clock
\* value of the latest spawn, so any two consecutive spawns are more than
\* spawn_interval apart, and a long gap between calls yields one car only.
C19_OneSpawnPerInterval ==
    [][/\ \/ cars' = cars /\ last_spawn_time' = last_spawn_time
          \/ /\ Len(cars') = Len(cars) + 1
             /\ SubSeq(cars', 1, Len(cars)) = cars
             /\ time' - last_spawn_time > CAR_SPAWN_INTERVAL
             /\ last_spawn_time' = time'
      ]_vars

\* two spawns, the first after a gap of more than two intervals, the second
\* one call later
C19_Witness ==
    /\ Len(cars) = 2
    /\ last_spawn_time = time
    /\ time = 3 * CAR_SPAWN_INTERVAL + 3

\* the car is in lane in the stop zone of intersection id and outside every
\* capture radius
InStopZone(car, id) ==
    /\ Lateral(car, id) < LANE_TOLERANCE
    /\ Ahead(car, id) > STOP_DISTANCE_MIN
    /\ Ahead(car, id) < STOP_DISTANCE_MAX
    /\ ~WithinAnyRadius(car.x, car.y)

\* the last call spawned: try_spawn set last_spawn_time to the clock value
\* it read
SpawnedInCall == last_spawn_time = time

\* C20: City::update spawns, then updates the lights, then the cars: a car
\* spawned in a call is the last car of that call's car update and has
\* already moved when the call returns, and a car in a stop zone is held or
\* let go according to the light states the call's own light update
\* produced, not those of the previous call.
C20_SpawnThenLightsThenCars ==
    frames > 0 =>
        /\ Len(log.snapshot) = Len(log.cars_before) + (IF SpawnedInCall THEN 1 ELSE 0)
        /\ SpawnedInCall =>
              \E ch \in SpawnChoices :
                 /\ log.snapshot = Append(log.cars_before, spawn_car(ch))
                 /\ cars # <<>>
                 /\ cars[Len(cars)] = move_car(spawn_car(ch), log.dt)
        /\ (~log.all_lights_red /\ Len(cars) = Len(log.snapshot)) =>
              \A k \in DOMAIN log.snapshot : \A id \in IntIds :
                 InStopZone(log.snapshot[k], id) =>
                    cars[k] = IF ActualLight(log.snapshot[k], id) = 2
                              THEN move_car(log.snapshot[k], log.dt)
                              ELSE log.snapshot[k]

\* a call that spawned a car and turned the light of a waiting car from
\* Green to Yellow: the car was held
C20_Witness ==
    /\ frames > 0
    /\ SpawnedInCall
    /\ ~log.all_lights_red
    /\ log.dt > 0
    /\ Len(cars) = 2
    /\ InStopZone(cars[1], 0)
    /\ get_light_state_for_direction(log.lights_before[0], cars[1].direction) = 2
    /\ ActualLight(cars[1], 0) = 1
    /\ cars[1] = log.cars_before[1]

----------------------------------------------------------------------------
(* Properties of the input handling                                        *)

\* C21: after a handle_input call in whose frame Escape is pressed, the
\* returned all_lights_red and danger_mode are both false and reset_scada is
\* true, whatever their previous values and whatever other keys are pressed
\* in the same frame.
C21_EscapeResetsAllModes ==
    "Escape" \in modes.pressed =>
        /\ ~modes.all_lights_red
        /\ ~modes.danger_mode
        /\ modes.reset_scada

----------------------------------------------------------------------------
(* Properties of the event channel                                         *)

IsPrefix(a, b) == Len(a) <= Len(b) /\ SubSeq(b, 1, Len(a)) = a

\* C22: every event sent is returned by exactly one poll call, in send
\* order: the events returned so far, those the poll in progress has taken
\* and those still in flight make up the sequence of sent events, without
\* loss, repetition or reordering.  A finished poll has returned at least
\* everything that was pending when it was called (nothing when nothing was
\* pending and nothing was sent meanwhile), and a poll in progress can
\* always take its next step, whether or not the sender is sending.
C22_EveryEventPolledOnceInOrder ==
    /\ channel.delivered \o channel.events \o channel.queue
          = [k \in 1 .. channel.sent |-> k]
    /\ ~channel.polling => IsPrefix(channel.pending, channel.returned)
    /\ channel.polling => ENABLED PollStep

\* three events sent and returned, then a poll that found nothing pending
\* and returned an empty list
C22_Witness ==
    /\ ~channel.polling
    /\ channel.polls = 2
    /\ channel.pending = <<>>
    /\ channel.returned = <<>>
    /\ channel.delivered = <<1, 2, 3>>
    /\ channel.queue = <<>>

----------------------------------------------------------------------------
(* Properties of a car's passage through intersections                     *)

\* C23: a car turns at most once per intersection visit: when a turn
\* executes, an update since the car's previous turn began with the car
\* within the capture radius of no intersection.
C23_OneTurnPerVisit ==
    (frames > 0 /\ log.results[1].turned) => log.away_before

\* the car's second turn, at another intersection than the first
C23_Witness ==
    /\ frames > 0
    /\ log.results[1].turned
    /\ log.turns = 2
    /\ log.away_before

\* the position lies less than 40 px from the center of some intersection
InCaptureRadius(x, y) ==
    \E id \in IntIds :
        (x - IntX(id)) * (x - IntX(id)) + (y - IntY(id)) * (y - IntY(id)) < 40 * 40

\* C26: after a car's update its in_intersection flag is true exactly when
\* its position at the start of that update was within the capture radius
\* of some intersection; when it was within the radius of none, both
\* in_intersection and just_turned are false after the update.
C26_FlagIsMembershipAtStart ==
    \A k \in DOMAIN log.results :
        LET r == log.results[k] IN
        /\ r.after.in_intersection <=> InCaptureRadius(r.before.x, r.before.y)
        /\ ~InCaptureRadius(r.before.x, r.before.y) => ~r.after.just_turned

\* a car that turned, carried both flags out of the capture radius and had
\* them cleared by this update
C26_Witness ==
    \E k \in DOMAIN log.results :
        LET r == log.results[k] IN
        /\ r.before.in_intersection
        /\ r.before.just_turned
        /\ ~InCaptureRadius(r.before.x, r.before.y)
        /\ ~r.after.in_intersection
        /\ ~r.after.just_turned

\* the two directions lie on different axes
QuarterTurn(a, b) == (a \in {Down, Up}) # (b \in {Down, Up})

\* C24: in every reachable state a car's planned turn, when present, is
\* perpendicular to the car's direction, for spawned cars and after every
\* executed turn; an executed turn changes the heading by a quarter turn.
C24_PlannedTurnPerpendicular ==
    /\ \A i \in DOMAIN cars :
          cars[i].next_turn # None => QuarterTurn(cars[i].direction, cars[i].next_turn)
    /\ \A k \in DOMAIN log.results :
          log.results[k].turned =>
              QuarterTurn(log.results[k].before.direction, log.results[k].after.direction)

\* a call in which a car turned from Down to Right and planned its next
\* turn, and in which a car was spawned with a planned turn
C24_Witness ==
    /\ frames > 0
    /\ Len(cars) = 2
    /\ log.results[1].turned
    /\ log.results[1].before.direction = Down
    /\ cars[1].direction = Right
    /\ cars[1].next_turn = Up
    /\ SpawnedInCall
    /\ cars[2].next_turn # None

\* the car of result r went CAR_SPEED * dt pixels in its direction from
\* where the membership and turn handling had put it
Advanced(r, dt) ==
    /\ r.after.x = r.updated.x + (CASE r.updated.direction = Right -> CAR_SPEED * dt
                                    [] r.updated.direction = Left -> -(CAR_SPEED * dt)
                                    [] OTHER -> 0)
    /\ r.after.y = r.updated.y + (CASE r.updated.direction = Down -> CAR_SPEED * dt
                                    [] r.updated.direction = Up -> -(CAR_SPEED * dt)
                                    [] OTHER -> 0)

\* C25: a car that executes a turn in a tick is stopped in that tick by no
\* stop check (light, occupancy, following distance): placed in its new lane
\* at the intersection center, it advances by CAR_SPEED * dt in the new
\* direction within the same update_cars call.
C25_TurningCarNotStopped ==
    \A k \in DOMAIN log.results :
        log.results[k].turned =>
            /\ log.results[k].reason = "none"
            /\ Advanced(log.results[k], log.dt)

\* a car turned into a lane in which another car stands 45 px ahead, under
\* the override, and advanced
C25_Witness ==
    \E k, j \in DOMAIN log.results :
        LET r == log.results[k]
            other == log.snapshot[j]
        IN /\ r.turned
           /\ log.all_lights_red
           /\ log.dt > 0
           /\ other.direction = r.updated.direction
           /\ Abs(other.x - r.updated.x) + Abs(other.y - r.updated.y) = 45
           /\ ~InCaptureRadius(other.x, other.y)
           /\ Advanced(r, log.dt)

----------------------------------------------------------------------------
(* Timing of the light controllers                                         *)

\* one cycle of a controller: Green and Yellow of one axis, then of the other
CycleLength == 2 * (GREEN_DURATION + YELLOW_DURATION)

\* what an axis shows p tenths of a second after it turned Green: Green for
\* GREEN_DURATION, Yellow for YELLOW_DURATION, Red for the rest of the cycle
ShowsAt(p) ==
    IF p < GREEN_DURATION THEN Green
    ELSE IF p < GREEN_DURATION + YELLOW_DURATION THEN Yellow
    ELSE Red

AxisLight(c, axis) == IF axis = Vertical THEN c.vertical_state ELSE c.horizontal_state

\* one update of one controller, c before and c2 after, made a phase
\* transition
Transitioned(c, c2) ==
    \E axis \in {Vertical, Horizontal} : AxisState(c, axis) # AxisState(c2, axis)

\* what C28 says of one update of one controller
TimerRule(c, c2) ==
    Transitioned(c, c2) =>
        /\ c2.time_in_state = AxisLight(c2, c2.active_direction).duration
        /\ AxisState(c, c.active_direction) = Green =>
              /\ AxisState(c2, c2.active_direction) = Yellow
              /\ c2.time_in_state = YELLOW_DURATION
        /\ AxisState(c2, c.active_direction) = Red =>
              /\ c2.active_direction = OtherAxis(c.active_direction)
              /\ AxisState(c2, c2.active_direction) = Green
              /\ c2.time_in_state = GREEN_DURATION

\* C28: after every phase transition performed by
\* IntersectionTrafficLight::update, time_in_state equals the configured
\* duration of the state now shown by the axis that is active after the
\* transition: YELLOW_DURATION after Green to Yellow, and GREEN_DURATION of
\* the newly active axis after the active axis went Red.
C28_TimerIsDurationOfActiveState ==
    [][\A b \in BOOLEAN : TimerRule(itl[b], itl'[b])]_vars

\* the second controller has just handed over from its horizontal to its
\* vertical axis, the timer at the full Green time
C28_Witness ==
    /\ time >= GREEN_DURATION + YELLOW_DURATION
    /\ itl[FALSE].active_direction = Vertical
    /\ AxisState(itl[FALSE], Vertical) = Green
    /\ AxisState(itl[FALSE], Horizontal) = Red
    /\ itl[FALSE].time_in_state = GREEN_DURATION

\* the timer of every light and controller is positive and at most the
\* duration of the state shown
TimerInRange ==
    /\ \A id \in DOMAIN lights : \A k \in 1 .. Len(lights[id]) :
          /\ 0 < lights[id][k].time_in_state
          /\ lights[id][k].time_in_state <= lights[id][k].state.duration
    /\ \A b \in BOOLEAN :
          /\ 0 < itl[b].time_in_state
          /\ itl[b].time_in_state <= AxisLight(itl[b], itl[b].active_direction).duration

\* one update of a TrafficLight, l before and l2 after: the state is kept and
\* the timer has not grown, or the state is the next one of the cycle and the
\* timer is its full duration
OneStepLight(l, l2) ==
    \/ /\ l2.state = l.state
       /\ l2.time_in_state <= l.time_in_state
    \/ /\ l2.state = TLNextState(l)
       /\ l2.time_in_state = l2.state.duration

\* one update of an IntersectionTrafficLight, c before and c2 after
OneStepItl(c, c2) ==
    \/ /\ ~Transitioned(c, c2)
       /\ c2.active_direction = c.active_direction
       /\ c2.time_in_state <= c.time_in_state
    \/ /\ AxisLight(c2, c.active_direction) = ItlNextState(AxisLight(c, c.active_direction))
       /\ c2.time_in_state = AxisLight(c2, c2.active_direction).duration

\* C29: one update(dt) call of TrafficLight or IntersectionTrafficLight
\* performs at most one phase transition however large dt is, and on a
\* transition sets the remaining time to the full duration of the new phase
\* without carrying over the overshoot; after any update with dt >= 0 from a
\* default-built light, 0 < time_in_state <= duration of the current state.
C29_OneTransitionPerUpdate ==
    /\ []TimerInRange
    /\ [][/\ \A id \in DOMAIN lights : \A k \in 1 .. Len(lights[id]) :
                OneStepLight(lights[id][k], lights'[id][k])
          /\ \A b \in BOOLEAN : OneStepItl(itl[b], itl'[b])]_vars

\* frame times overshooting the timers have shortened phases: the two lights
\* of intersection 0, whose Red and Yellow begin 2 s apart when every phase
\* runs its full length, entered them in the same update, and both timers
\* are at the full duration of the new phase
C29_Witness ==
    /\ lights[0][1].state.state = Red
    /\ lights[0][1].time_in_state = RED_DURATION
    /\ lights[0][2].state.state = Yellow
    /\ lights[0][2].time_in_state = YELLOW_DURATION

----------------------------------------------------------------------------
(* The grid of intersections                                               *)

\* the state shown by the vertical (k = 1) or horizontal (k = 2) light of an
\* intersection
Shown(ls, id, k) == ls[id][k].state.state

----------------------------------------------------------------------------
(* The window                                                              *)

\* C31: when WindowState::check_resize detects a resize (width or height
\* changed by more than the threshold), the car pool is emptied before that
\* frame's City::update, while every intersection keeps its id and its
\* lights' states and remaining times (they are advanced by that update's dt
\* only); check_resize reports a given size change only once.
C31_ResizeClearsCarsOnly ==
    frames > 0 =>
        /\ log.resized <=> (\/ Abs(log.screen[1] - log.window_before.width) > RESIZE_THRESHOLD
                            \/ Abs(log.screen[2] - log.window_before.height) > RESIZE_THRESHOLD)
        /\ log.resized =>
              /\ log.cars_before = <<>>
              /\ Len(cars) <= 1
              /\ cars # <<>> => SpawnedInCall
              /\ DOMAIN lights = DOMAIN log.lights_before
              /\ lights = update_traffic_lights(log.lights_before, log.dt)
              /\ <<window.width, window.height>> = log.screen
        /\ (log.prev_resized /\ log.screen = log.prev_screen) => ~log.resized

\* a resize was detected in a frame that began with a car in the pool, the
\* one spawned in the frame before, which had detected a resize too
C31_Witness ==
    /\ frames = 2
    /\ log.resized
    /\ log.prev_resized
    /\ log.pool_before # <<>>
    /\ cars = <<>>

----------------------------------------------------------------------------
(* The spawner's cars                                                      *)

\* pixel positions of the vertical roads (x) and the horizontal roads (y)
VerticalRoadXs == {(VERTICAL_ROAD_POSITIONS[i] * ScreenW) \div 100 : i \in 1 .. 3}
HorizontalRoadYs == {(HORIZONTAL_ROAD_POSITIONS[i] * ScreenH) \div 100 : i \in 1 .. 2}

\* the car spawn_cars pushed in the last City::update, as update_cars found it
SpawnedCar == log.snapshot[Len(log.snapshot)]

----------------------------------------------------------------------------
(* Movement                                                                *)

\* the signed distance car b lies ahead of car a along a's direction
AlongFrom(a, b) ==
    CASE a.direction = Down -> b.y - a.y
      [] a.direction = Up -> a.y - b.y
      [] a.direction = Right -> b.x - a.x
      [] a.direction = Left -> a.x - b.x

\* the off-axis coordinate of a car with respect to direction d
OffAxis(car, d) == IF d \in {Down, Up} THEN car.x ELSE car.y

\* C33: in a tick in which a car is not stopped and does not turn, only its
\* coordinate along its direction changes, by CAR_SPEED * dt pixels toward
\* that direction (the same speed for every car); in a tick in which it is
\* stopped its position is unchanged; a car's off-axis coordinate, direction
\* and planned turn change only in a tick in which it executes a turn.
C33_MovesAlongDirectionOnly ==
    \A k \in DOMAIN log.results :
        LET r == log.results[k] IN
        /\ (r.reason = "none" /\ ~r.turned) =>
              /\ AlongFrom(r.before, r.after) = CAR_SPEED * log.dt
              /\ OffAxis(r.after, r.before.direction) = OffAxis(r.before, r.before.direction)
        /\ r.reason # "none" =>
              /\ r.after.x = r.before.x
              /\ r.after.y = r.before.y
        /\ (\/ OffAxis(r.after, r.before.direction) # OffAxis(r.before, r.before.direction)
            \/ r.after.direction # r.before.direction
            \/ r.after.next_turn # r.before.next_turn) => r.turned

\* a call with dt = 0.2 s in which one car went on by 10 px and another was
\* held where it was
C33_Witness ==
    /\ log.dt = 2
    /\ \E k, j \in DOMAIN log.results :
          /\ log.results[k].reason = "none"
          /\ ~log.results[k].turned
          /\ AlongFrom(log.results[k].before, log.results[k].after) = 2 * CAR_SPEED
          /\ log.results[j].reason # "none"
          /\ log.results[j].after = log.results[j].before

----------------------------------------------------------------------------
(* The cycle of a light                                                    *)

\* the state after s in the cycle Green, Yellow, Red, Green
CycleSuccessor(s) == CASE s = Green -> Yellow [] s = Yellow -> Red [] s = Red -> Green

\* a state shown before and after one update: kept, or moved on by one place
InCycleOrder(s, s2) == s2 = s \/ s2 = CycleSuccessor(s)

\* C34: under repeated updates with dt > 0, every light of every
\* intersection, and every axis of an IntersectionTrafficLight, follows the
\* cyclic order Green, Yellow, Red, Green with no phase skipped or repeated,
\* and is Green infinitely often and Red infinitely often; no light stays in
\* one state forever.
C34_LightsCycleForever ==
    /\ [][/\ \A id \in IntIds : \A k \in 1 .. 2 :
                InCycleOrder(Shown(lights, id, k), Shown(lights', id, k))
          /\ \A b \in BOOLEAN : \A axis \in {Vertical, Horizontal} :
                InCycleOrder(AxisState(itl[b], axis), AxisState(itl'[b], axis))]_vars
    /\ \A id \in IntIds : \A k \in 1 .. 2 : \A s \in {Green, Yellow, Red} :
          []<>(Shown(lights, id, k) = s)
    /\ \A b \in BOOLEAN : \A axis \in {Vertical, Horizontal} : \A s \in {Green, Yellow, Red} :
          []<>(AxisState(itl[b], axis) = s)

\* the lights that started Green have gone through Yellow and are Red, their
\* partners Yellow; the first controller is on its second axis
C34_Witness ==
    /\ Shown(lights, 0, 1) = Red
    /\ Shown(lights, 0, 2) = Yellow
    /\ Shown(lights, 1, 2) = Red
    /\ AxisState(itl[TRUE], Vertical) = Red
    /\ AxisState(itl[TRUE], Horizontal) = Green

----------------------------------------------------------------------------
(* Progress of the cars                                                    *)

\* the longest a car may be held without a move: one whole cycle of a light
HoldLimit == GREEN_DURATION + YELLOW_DURATION + RED_DURATION

----------------------------------------------------------------------------
(* Planned turns                                                           *)

\* the car is in its lane inside the 20 px turn window of some intersection
InTurnWindow(car) ==
    \E id \in IntIds :
        IF car.direction \in {Down, Up}
        THEN Abs(car.x - IntX(id)) <= LANE_OFFSET /\ Abs(car.y - IntY(id)) < 10
        ELSE Abs(car.y - IntY(id)) <= LANE_OFFSET /\ Abs(car.x - IntX(id)) < 10

\* C36: a new turn is planned only at spawn and immediately after an
\* executed turn: once a car's planned turn is None it stays None for the
\* rest of the car's life and the car's direction never changes again, and a
\* car whose planned turn is present executes it at the first intersection
\* center it reaches (ticks short enough not to jump over the 20 px turn
\* window).
C36_PlanOnlyAfterTurn ==
    frames > 0 =>
        LET r == log.results[1] IN
        /\ r.before.next_turn = None =>
              /\ ~r.turned
              /\ r.after.next_turn = None
              /\ r.after.direction = r.before.direction
        /\ (\/ r.after.next_turn # r.before.next_turn
            \/ r.after.direction # r.before.direction) => r.turned
        /\ (/\ r.before.next_turn # None
            /\ log.away_before
            /\ InTurnWindow(r.before)) => r.turned

\* a car that turned once and drew no further turn has reached the center
\* of the next intersection and goes straight on
C36_Witness ==
    /\ frames > 0
    /\ log.turns = 1
    /\ log.away_before
    /\ log.results[1].before.next_turn = None
    /\ InTurnWindow(log.results[1].before)
    /\ ~log.results[1].turned

(***************************************************************************)
(* A car and its own entry in the snapshot                                 *)
(***************************************************************************)

\* the light the car faces at intersection id shows Green
FacesGreen(car, id) == get_light_state_for_direction(lights[id], car.direction) = 2

\* the car's own entry in the snapshot lies inside the capture radius of an
\* intersection the car is approaching
OwnEntryInRadius(r) ==
    \E id \in 0 .. NumIntersections - 1 :
        OccupiedBy(r.updated, log.snapshot[1], IntX(id), IntY(id))

\* C37: a car alone in the pool is never stopped by its own entry in the
\* snapshot of the tick: the only check that stops it is the traffic-light
\* check, at a light that is not Green, and when every light it faces is
\* Green it advances by CAR_SPEED * dt in the tick
C37_NotStoppedByOwnEntry ==
    (frames > 0 /\ Len(log.snapshot) = 1) =>
        LET r == log.results[1] IN
        /\ r.reason \in {"none", "light"}
        /\ r.reason = "light" =>
              \E id \in 0 .. NumIntersections - 1 : ~FacesGreen(r.updated, id)
        /\ (\A id \in 0 .. NumIntersections - 1 : FacesGreen(r.updated, id)) =>
              r.reason = "none"
        /\ r.reason = "none" => Advanced(r, log.dt)

\* a car alone in the pool entered the capture radius of an intersection in
\* this tick, so that its own entry in the snapshot occupies the
\* intersection it approaches, and advanced
C37_Witness ==
    /\ frames > 0
    /\ Len(log.snapshot) = 1
    /\ ~log.results[1].before.in_intersection
    /\ log.results[1].updated.in_intersection
    /\ OwnEntryInRadius(log.results[1])
    /\ log.results[1].reason = "none"
    /\ Advanced(log.results[1], log.dt)

(***************************************************************************)
(* Lights with custom durations                                            *)
(***************************************************************************)

\* C38: a light built with a custom initial duration has that duration
\* again whenever its cycle is in the state it was built in
C38_CustomDurationPreserved ==
    \A id \in IntIds : \A k \in 1 .. 2 :
        lights[id][k].state.state = log.built[k].state =>
            lights[id][k].state.duration = log.built[k].duration

(***************************************************************************)
(* The log window                                                          *)
(***************************************************************************)

\* the last n elements of a sequence
LastEntries(q, n) == SubSeq(q, Len(q) - n + 1, Len(q))

\* the smaller of two numbers
Smaller(a, b) == IF a < b THEN a ELSE b

\* C39: a LogWindow never stores more than max_entries entries (none at all
\* when max_entries is 0) and stores them in logging order; a log call
\* leaves the newest entries of the old ones followed by the new one, as
\* many as fit, so that when the bound is exceeded exactly the oldest is
\* gone; toggle_visibility flips visible and leaves the entries and the
\* capacity as they were
C39_LogWindowBounded ==
    /\ Len(log_window.entries) <= log_window.max_entries
    /\ \A i, j \in DOMAIN log_window.entries :
          i < j => log_window.entries[i] < log_window.entries[j]
    /\ log.op = "log" =>
          LET pushed == Append(log.lw_before.entries, frames) IN
          /\ log_window.entries =
                LastEntries(pushed, Smaller(Len(pushed), log_window.max_entries))
          /\ Len(pushed) > log_window.max_entries =>
                log_window.entries = Tail(pushed)
          /\ log_window.max_entries = log.lw_before.max_entries
          /\ log_window.visible = log.lw_before.visible
    /\ log.op = "toggle" =>
          /\ log_window.entries = log.lw_before.entries
          /\ log_window.max_entries = log.lw_before.max_entries
          /\ log_window.visible = ~log.lw_before.visible

\* a log call on a hidden window that was full with its three entries: the
\* oldest was evicted and the new entry stands last
C39_Witness ==
    /\ log.op = "log"
    /\ log_window.max_entries = 3
    /\ Len(log.lw_before.entries) = 3
    /\ ~log_window.visible
    /\ log_window.entries = Tail(log.lw_before.entries) \o <<frames>>

====
